---- MODULE Spec2Model ----
(***************************************************************************)
(* Resume date validation engine (resumind): the date parser, the section  *)
(* segmenter, the period builder, the timeline validators, the general     *)
(* rules and the validation orchestrator.                                  *)
(*                                                                         *)
(* Conventions of the model                                                *)
(*  - A Date is a record [y, m, d, h]: a day and the hour of that day;     *)
(*    NoDate stands for null.  A Date built by new Date(y, m - 1, d) is    *)
(*    local midnight of that day (h = 0); getTime is its getTime() counted *)
(*    in hours.  The clock (new Date(), Date.now()) is the variable now,   *)
(*    read with its time of day; the text of a date (toLocaleDateString)   *)
(*    holds the day only.                                                  *)
(*  - The suggestion generator and its typo detector read the year of the  *)
(*    clock once, when the service constructs them; suggestionGenerator    *)
(*    keeps that year while the clock moves on (TimePasses).               *)
(*  - Text is a sequence of lines, a line a sequence of tokens.  Tokens of *)
(*    a line are separated by one blank, except around a slash.  A token   *)
(*    has a kind (word, month, num, dash, slash), the word in lower case   *)
(*    (a month name may be spelled in another letter case),                *)
(*    a numeric value and its length in characters, so that startIndex is  *)
(*    the character offset the regular expressions report.                 *)
(*  - The confidence of a parsed date, of an issue and of a suggestion is  *)
(*    a JavaScript double, kept in units of 1/100000.  The sums the code   *)
(*    computes in floating point are not exact                             *)
(*    (0.7 + 0.1 = 0.7999999999999999): FAdd reproduces them.              *)
(*  - The confidence of a period is computed from an average of the date   *)
(*    confidences and takes values that are no decimal of five places: it  *)
(*    is kept as the double itself, a record [mant, e] that stands for     *)
(*    mant * 2^e, computed by DAdd, DMul and DDiv as IEEE-754 computes it. *)
(***************************************************************************)
EXTENDS Integers, Sequences, FiniteSets, TLC

(***************************************************************************)
(* The state: the configuration of the service, the clock, the last call   *)
(* with what it returned, a configuration manager of its own, the          *)
(* lastIndex of the regular expressions of DATE_PATTERNS (they carry the   *)
(* global flag and are shared by all calls), and what extractDatesFromText *)
(* returned for the texts it was given, the persistence and the logger of  *)
(* the service, and its suggestion generator.                              *)
(***************************************************************************)
VARIABLES config, now, nUpdates, call, result, trace, manager, lastIndex,
          returned, persistence, logger, suggestionGenerator

vars ==
  << config, now, nUpdates, call, result, trace, manager, lastIndex,
     returned, persistence, logger, suggestionGenerator >>

(***************************************************************************)
(* Bounds of the model.                                                    *)
(***************************************************************************)
MaxLines == 2
MaxPeriods == 2

(***************************************************************************)
(* Calendar.                                                               *)
(***************************************************************************)
NoDate == [y |-> 0, m |-> 0, d |-> 0, h |-> 0]

\* new Date(y, m - 1, d): local midnight of the day
MkDate(y, m, d) == [y |-> y, m |-> m, d |-> d, h |-> 0]

\* the date at h o'clock of its day
At(date, h) == [date EXCEPT !.h = h]

\* the day of a date, as toLocaleDateString() writes it
Day(date) == [date EXCEPT !.h = 0]

IsLeap(y) == (y % 4 = 0 /\ y % 100 # 0) \/ y % 400 = 0

DaysInMonth(y, m) ==
  IF m = 2 THEN (IF IsLeap(y) THEN 29 ELSE 28)
  ELSE IF m \in {4, 6, 9, 11} THEN 30 ELSE 31

\* the value of F at v, v being computed once
Bind(v, F(_)) == CHOOSE r \in {F(x) : x \in {v}} : TRUE

\* the time zone of the process, in which a Date reads its year, month, day
\* and hour: "UTC", or "Europe/Berlin" with its summer time
TimeZone == "UTC"

\* the operations on dates; their definitions are the arms of Calendar
RECURSIVE Calendar(_, _)

\* the days from 1970-01-01 to the day of a date
DayNum(date) ==
  LET yy  == IF date.m <= 2 THEN date.y - 1 ELSE date.y
      era == yy \div 400
      yoe == yy - era * 400
      mp  == IF date.m > 2 THEN date.m - 3 ELSE date.m + 9
      doy == (153 * mp + 2) \div 5 + date.d - 1
      doe == yoe * 365 + yoe \div 4 - yoe \div 100 + doy
  IN  era * 146097 + doe - 719468

\* the date of a day number
DateOfDay(n) == Calendar("DateOfDay", n)

\* the day of the week of a day number, 0 for Sunday
WeekDay(n) == (n + 4) % 7

\* the last Sunday of a month, as a day number
LastSunday(y, m) == Calendar("LastSunday", << y, m >>)

\* summer time in Europe/Berlin at the time t (hours since 1970-01-01 UTC) of
\* the years from 1950 on: from 01:00 UTC of the last Sunday of March (in
\* 1980 of 6 April) to 01:00 UTC of the last Sunday of October (before 1996
\* of September), and none before 1980
IsSummerTime(t) == Calendar("IsSummerTime", t)

\* local time minus UTC at the time t, in hours
UtcOffset(t) == Calendar("UtcOffset", t)

\* Date.getTime(), in hours: the time at which the local clock shows the
\* date; a day of the local calendar has 23, 24 or 25 hours
getTime(date) ==
  IF TimeZone = "UTC" THEN DayNum(date) * 24 + date.h
  ELSE Calendar("getTime", date)

\* new Date(ms): the local date and hour at the time t
DateOf(t) == Calendar("DateOf", t)

Calendar(op, a) ==
  CASE op = "DateOfDay" ->
         Bind(a + 719468, LAMBDA z :
           Bind(z - (z \div 146097) * 146097, LAMBDA doe :
             Bind((doe - doe \div 1460 + doe \div 36524 - doe \div 146096)
                    \div 365, LAMBDA yoe :
               Bind(doe - (365 * yoe + yoe \div 4 - yoe \div 100), LAMBDA doy :
                 Bind((5 * doy + 2) \div 153, LAMBDA mp :
                   [y |-> yoe + (z \div 146097) * 400
                          + (IF mp < 10 THEN 0 ELSE 1),
                    m |-> IF mp < 10 THEN mp + 3 ELSE mp - 9,
                    d |-> doy - (153 * mp + 2) \div 5 + 1,
                    h |-> 0])))))
    [] op = "LastSunday" ->
         Bind(DayNum([y |-> a[1], m |-> a[2],
                      d |-> DaysInMonth(a[1], a[2]), h |-> 0]),
           LAMBDA last : last - WeekDay(last))
    [] op = "IsSummerTime" ->
         Bind(DateOfDay(a \div 24).y, LAMBDA y :
           /\ y >= 1980
           /\ a >= 1 + 24 * (IF y = 1980
                             THEN DayNum([y |-> 1980, m |-> 4, d |-> 6,
                                          h |-> 0])
                             ELSE LastSunday(y, 3))
           /\ a < 1 + 24 * LastSunday(y, IF y >= 1996 THEN 10 ELSE 9))
    [] op = "UtcOffset" ->
         IF TimeZone = "Europe/Berlin"
         THEN (IF IsSummerTime(a) THEN 2 ELSE 1)
         ELSE 0
    [] op = "getTime" ->
         Bind(DayNum(a) * 24 + a.h, LAMBDA local :
           IF IsSummerTime(local - 2) THEN local - 2 ELSE local - 1)
    [] op = "DateOf" ->
         Bind(a + UtcOffset(a), LAMBDA local :
           [DateOfDay(local \div 24) EXCEPT !.h = local % 24])

Min(a, b) == IF a <= b THEN a ELSE b
Max(a, b) == IF a >= b THEN a ELSE b

(***************************************************************************)
(* Natural numbers of any size, as the sequence of their digits to the     *)
(* base 2^13, lowest digit first, without leading zeros.                   *)
(***************************************************************************)
Base == 2^13

Limb(a, i) == IF i \in 1..Len(a) THEN a[i] ELSE 0

RECURSIVE Carry(_, _, _)
\* the digits of the number whose digits from i on are raw[i], raw[i+1],
\* ... (each of any size) plus the carry c
Carry(raw, i, c) ==
  IF i > Len(raw)
  THEN (IF c = 0 THEN << >>
        ELSE << c % Base >> \o Carry(raw, i, c \div Base))
  ELSE << (raw[i] + c) % Base >>
       \o Carry(raw, i + 1, (raw[i] + c) \div Base)

\* a without its leading zeros
Trim(a) ==
  IF \A i \in 1..Len(a) : a[i] = 0 THEN << >>
  ELSE SubSeq(a, 1, CHOOSE t \in 1..Len(a) :
                      a[t] # 0 /\ \A j \in (t + 1)..Len(a) : a[j] = 0)

BigOf(n) == Carry(<< n >>, 1, 0)

BigAdd(a, b) ==
  Trim(Carry([i \in 1..Max(Len(a), Len(b)) |-> Limb(a, i) + Limb(b, i)],
             1, 0))

RECURSIVE Column(_, _, _, _)
\* the sum of a[j] * b[k + 1 - j] for j in i..k
Column(a, b, k, i) ==
  IF i > k THEN 0
  ELSE Limb(a, i) * Limb(b, k + 1 - i) + Column(a, b, k, i + 1)

BigMul(a, b) ==
  Trim(Carry([k \in 1..(Len(a) + Len(b)) |-> Column(a, b, k, 1)], 1, 0))

\* a * 2^k
BigShl(a, k) == [i \in 1..(k \div 13) |-> 0] \o BigMul(a, << 2^(k % 13) >>)

\* bit k of a, bit 0 being the lowest
Bit(a, k) == (Limb(a, (k \div 13) + 1) \div 2^(k % 13)) % 2

\* some bit of a below bit k is set
AnyBelow(a, k) ==
  \/ \E i \in 1..(k \div 13) : Limb(a, i) # 0
  \/ Limb(a, (k \div 13) + 1) % 2^(k % 13) # 0

\* a \div 2^k
BigShr(a, k) ==
  Trim([i \in 1..Max(Len(a) - (k \div 13), 0) |->
          (Limb(a, i + (k \div 13)) \div 2^(k % 13))
          + (Limb(a, i + (k \div 13) + 1) % 2^(k % 13))
            * 2^(13 - (k % 13))])

\* the number of bits of a, 0 for zero
BitLen(a) ==
  IF Len(Trim(a)) = 0 THEN 0
  ELSE 13 * (Len(Trim(a)) - 1)
       + (CHOOSE n \in 1..13 :
            /\ 2^(n - 1) <= Trim(a)[Len(Trim(a))]
            /\ Trim(a)[Len(Trim(a))] < 2^n)

RECURSIVE DivFrom(_, _, _, _)
\* long division of a by a small n from digit i downwards, r being the
\* remainder so far: the digits of the quotient, highest first, followed by
\* the remainder
DivFrom(a, n, i, r) ==
  IF i = 0 THEN << r >>
  ELSE << (r * Base + a[i]) \div n >>
       \o DivFrom(a, n, i - 1, (r * Base + a[i]) % n)

\* [q |-> a \div n, r |-> a % n] for 0 < n < 2^18
BigDivSmall(a, n) ==
  Bind(DivFrom(a, n, Len(a), 0),
    LAMBDA d : [q |-> Trim([i \in 1..(Len(d) - 1) |-> d[Len(d) - i]]),
                r |-> d[Len(d)]])

\* a < b
BigLess(a, b) ==
  IF Len(a) # Len(b) THEN Len(a) < Len(b)
  ELSE /\ a # b
       /\ LET t == CHOOSE i \in 1..Len(a) :
                     a[i] # b[i] /\ \A j \in (i + 1)..Len(a) : a[j] = b[j]
          IN  a[t] < b[t]

(***************************************************************************)
(* JavaScript numbers (IEEE-754 binary64) that are zero, positive and      *)
(* finite, or NaN.  A positive double is [mant, e]: it stands for          *)
(* mant * 2^e and mant has exactly 53 bits; zero has mant = << >>.         *)
(* The operations are the cases of Arith, each under its own name.         *)
(***************************************************************************)
Zero == [mant |-> << >>, e |-> 0]

NaN == [nan |-> TRUE]

IsNaN(x) == "nan" \in DOMAIN x

\* x < y
DLess(x, y) ==
  IF IsNaN(x) \/ IsNaN(y) THEN FALSE
  ELSE IF y.mant = << >> THEN FALSE
  ELSE IF x.mant = << >> THEN TRUE
  ELSE IF x.e # y.e THEN x.e < y.e
  ELSE BigLess(x.mant, y.mant)

\* Math.min(x, y)
DMin(x, y) ==
  IF IsNaN(x) \/ IsNaN(y) THEN NaN ELSE IF DLess(y, x) THEN y ELSE x

\* the integer nearest to x * 100000, for 0 <= x < 2^8
Nearest(x) ==
  IF x.mant = << >> THEN 0
  ELSE Bind(BigShr(BigAdd(BigShl(BigMul(x.mant, BigOf(100000)), 1),
                          BigShl(<< 1 >>, 0 - x.e)),
                   1 - x.e),
         LAMBDA n : Limb(n, 1) + Base * Limb(n, 2))

RECURSIVE Arith(_, _)

\* the double nearest to m * 2^e, or to a little more than that when
\* sticky: round to nearest, ties to even
Round(m, e, sticky) == Arith("Round", << m, e, sticky >>)

\* x + y
DAdd(x, y) == Arith("DAdd", << x, y >>)

\* x * y
DMul(x, y) == Arith("DMul", << x, y >>)

\* x / n for an integer 0 <= n < 2^18; 0 / 0 is NaN (x / 0 for a positive
\* x, Infinity, is not among the numbers: the engine divides a sum of
\* no terms by 0, or divides by a positive length)
DDiv(x, n) == Arith("DDiv", << x, n >>)

\* the double a decimal literal of c / 100000 denotes (0.8 for 80000): the
\* double nearest to the quotient
Literal(c) == Arith("Literal", << c >>)

\* the decimals 0, 0.05, 0.1, ... 1.2 and their doubles, computed once
Decimals == {5000 * k : k \in 0..24}

Doubles == {<< c, Literal(c) >> : c \in Decimals}

Double(c) == Arith("Double", << c >>)

\* confidence += increment, for each of the increments in turn; an
\* increment is a decimal in units of 1/100000, 0 for a statement that is
\* not executed
DSum(confidence, increments) == Arith("DSum", << confidence, increments >>)

(***************************************************************************)
(* Confidence values of dates, issues and suggestions are kept in units of *)
(* 1/100000.  A confidence c that is a multiple of 100 stands for the      *)
(* double of the decimal c / 100000; a double below or above that one and  *)
(* nearer to it than half a unit is written c - 1 or c + 1                 *)
(* (0.7999999999999999 is 79999, 0.6000000000000001 is 60001).             *)
(***************************************************************************)
\* the confidence that stands for x
Units(x) == Arith("Units", << x >>)

\* the confidence the engine's confidence functions start from and the
\* increments of their statements, in the order of the statements
Chains ==
  {<< 70000, << 10000, 10000, 10000 >> >>,
   << 50000, << 20000, 20000, 10000, 10000, 15000 >> >>,
   << 40000, << 30000, 20000 >> >>,
   << 30000, << 20000, 20000, 20000 >> >>,
   << 50000, << 20000, 20000 >> >>,
   << 50000, << 20000, 10000 >> >>,
   << 50000, << 20000, 10000, 20000 >> >>}

\* the increments of the statements in S, 0 for the other statements
Masked(increments, S) ==
  [i \in 1..Len(increments) |-> IF i \in S THEN increments[i] ELSE 0]

\* their sums, for every choice of the statements that are executed,
\* computed once: the double and the confidence that stands for it
Sums ==
  UNION {{Bind(DSum(Double(ch[1]), Masked(ch[2], S)), LAMBDA x :
            << ch[1], Masked(ch[2], S), x, Units(x) >>) :
            S \in SUBSET (1..Len(ch[2]))} : ch \in Chains}

\* let confidence = c; confidence += increment, for each of the increments
\* in turn, as the IEEE-754 double addition rounds it
Sum(c, increments) == Arith("Sum", << c, increments >>)

\* the confidence that stands for Sum(c, increments)
FAdd(c, increments) == Arith("FAdd", << c, increments >>)

\* date.parsedDate?.confidence || 0, of each of the dates
DateConfidences(extractedDates) ==
  [k \in 1..Len(extractedDates) |->
     IF extractedDates[k].parsedDate.ok
     THEN extractedDates[k].parsedDate.confidence ELSE 0]

\* reduce((sum, date) => sum + (date.parsedDate?.confidence || 0), 0)
SumConfidence(extractedDates) == Arith("SumConfidence", << extractedDates >>)

\* (sum / length) * 0.1, of the confidences of the dates
AvgQuality(confidences) == Arith("AvgQuality", << confidences >>)

\* FORMAT_CONFIDENCE
EXACT_MATCH == 100000
PATTERN_MATCH == 80000

\* the number of dates of a period up to which AvgQuality is computed once
MaxKnownDates == 4

\* AvgQuality of the confidences the parser gives to up to MaxKnownDates
\* dates, computed once
Qualities ==
  {<< confidences, AvgQuality(confidences) >> :
     confidences \in UNION {[1..n -> {0, PATTERN_MATCH, EXACT_MATCH}] :
                              n \in 0..MaxKnownDates}}

\* avgDateConfidence * 0.1
DateQuality(extractedDates) == Arith("DateQuality", << extractedDates >>)

\* let confidence = 0.5; confidence += increment, for each of the
\* increments in turn; confidence += avgDateConfidence * 0.1;
\* Math.min(confidence, 1.0)
PeriodConfidence(increments, extractedDates) ==
  Arith("PeriodConfidence", << increments, extractedDates >>)

Arith(op, args) ==
  CASE op = "Round" ->
         LET m == args[1]
             e == args[2]
             sticky == args[3]
         IN  Bind(BitLen(m), LAMBDA len :
               IF len = 0 THEN Zero
               ELSE IF len <= 53
               THEN [mant |-> BigShl(Trim(m), 53 - len), e |-> e - (53 - len)]
               ELSE
                 LET s    == len - 53
                     half == Bit(m, s - 1) = 1
                     rest == AnyBelow(m, s - 1) \/ sticky
                     up   == half /\ (rest \/ Bit(m, s) = 1)
                 IN  Bind(BigShr(m, s), LAMBDA q :
                       IF ~up THEN [mant |-> q, e |-> e + s]
                       ELSE Bind(BigAdd(q, << 1 >>), LAMBDA r :
                              IF BitLen(r) = 54
                              THEN [mant |-> BigShr(r, 1), e |-> e + s + 1]
                              ELSE [mant |-> r, e |-> e + s])))
    [] op = "DAdd" ->
         LET x == args[1]
             y == args[2]
         IN  IF IsNaN(x) \/ IsNaN(y) THEN NaN
             ELSE IF x.mant = << >> THEN y
             ELSE IF y.mant = << >> THEN x
             ELSE Round(BigAdd(BigShl(x.mant, x.e - Min(x.e, y.e)),
                               BigShl(y.mant, y.e - Min(x.e, y.e))),
                        Min(x.e, y.e), FALSE)
    [] op = "DMul" ->
         LET x == args[1]
             y == args[2]
         IN  IF IsNaN(x) \/ IsNaN(y) THEN NaN
             ELSE Round(BigMul(x.mant, y.mant), x.e + y.e, FALSE)
    [] op = "DDiv" ->
         LET x == args[1]
             n == args[2]
         IN  IF IsNaN(x) \/ n = 0 THEN NaN
             ELSE Bind(BigDivSmall(BigShl(x.mant, 65), n),
                    LAMBDA d : Round(d.q, x.e - 65, d.r # 0))
    [] op = "Literal" ->
         DDiv(Round(BigOf(args[1]), 0, FALSE), 100000)
    [] op = "Double" ->
         IF args[1] \in Decimals
         THEN (CHOOSE t \in Doubles : t[1] = args[1])[2]
         ELSE Literal(args[1])
    [] op = "DSum" ->
         LET confidence == args[1]
             increments == args[2]
         IN  IF Len(increments) = 0 THEN confidence
             ELSE DSum(DAdd(confidence, Double(Head(increments))),
                       Tail(increments))
    [] op = "Units" ->
         LET x == args[1]
         IN  Bind(Nearest(x), LAMBDA n :
               IF n % 100 # 0 THEN n
               ELSE Bind(Double(n), LAMBDA d :
                      IF x = d THEN n
                      ELSE IF DLess(d, x) THEN n + 1 ELSE n - 1))
    [] op = "Sum" ->
         Bind({t \in Sums : t[1] = args[1] /\ t[2] = args[2]},
           LAMBDA known : IF known = {} THEN DSum(Double(args[1]), args[2])
                          ELSE (CHOOSE t \in known : TRUE)[3])
    [] op = "FAdd" ->
         Bind({t \in Sums : t[1] = args[1] /\ t[2] = args[2]},
           LAMBDA known : IF known = {}
                          THEN Units(DSum(Double(args[1]), args[2]))
                          ELSE (CHOOSE t \in known : TRUE)[4])
    [] op = "SumConfidence" ->
         DSum(Zero, DateConfidences(args[1]))
    [] op = "AvgQuality" ->
         DMul(DDiv(DSum(Zero, args[1]), Len(args[1])), Double(10000))
    [] op = "DateQuality" ->
         Bind(DateConfidences(args[1]), LAMBDA confidences :
           Bind({t \in Qualities : t[1] = confidences}, LAMBDA known :
             IF known = {} THEN AvgQuality(confidences)
             ELSE (CHOOSE t \in known : TRUE)[2]))
    [] op = "PeriodConfidence" ->
         DMin(DAdd(Sum(50000, args[1]), DateQuality(args[2])),
              Double(100000))

(***************************************************************************)
(* Tokens, lines and text.                                                 *)
(***************************************************************************)
Tok(t, w, v, len) == [t |-> t, w |-> w, v |-> v, len |-> len]

\* The vocabulary: each word with its length and the keywords of the
\* engine's keyword lists that occur in it as substrings.
WordInfo(w) ==
  CASE w = "education"   -> [len |-> 9,  has |-> {"education"}]
    [] w = "experience"  -> [len |-> 10, has |-> {"experience"}]
    [] w = "work"        -> [len |-> 4,  has |-> {"work"}]
    [] w = "university"  -> [len |-> 10, has |-> {"university"}]
    [] w = "University"  -> [len |-> 10, has |-> {"university"}]
    [] w = "technology"  -> [len |-> 10, has |-> {}]
    [] w = "of"          -> [len |-> 2,  has |-> {}]
    [] w = "acme"        -> [len |-> 4,  has |-> {}]
    [] w = "inc"         -> [len |-> 3,  has |-> {"inc"}]
    [] w = "present"     -> [len |-> 7,  has |-> {"present"}]
    [] w = "unknown"     -> [len |-> 7,  has |-> {"now"}]
    [] w = "institution" -> [len |-> 11, has |-> {}]
    [] w = "company"     -> [len |-> 7,  has |-> {"company"}]
    [] w = "position"    -> [len |-> 8,  has |-> {"position"}]
    [] w = "bachelor"    -> [len |-> 8,  has |-> {"bachelor"}]
    [] w = "master"      -> [len |-> 6,  has |-> {"master"}]
    [] w = "phd"         -> [len |-> 3,  has |-> {"phd"}]
    [] w = "certificate" -> [len |-> 11, has |-> {"certificate"}]
    [] OTHER             -> [len |-> 1,  has |-> {}]

W(w) == Tok("word", w, 0, WordInfo(w).len)

MonthNames ==
  <<"january", "february", "march", "april", "may", "june", "july",
    "august", "september", "october", "november", "december">>

MonthLens == <<7, 8, 5, 5, 3, 4, 4, 6, 9, 7, 8, 8>>

\* A full English month name.
Mon(m) == Tok("month", MonthNames[m], m, MonthLens[m])

\* A number written with len digits.
Num(v, len) == Tok("num", "", v, len)

Dash == Tok("dash", "-", 0, 1)
Slash == Tok("slash", "/", 0, 1)

\* a keyword of several words, as the sequence of its words
Phrase(kw) ==
  CASE kw = "till date"               -> <<"till", "date">>
    [] kw = "to date"                 -> <<"to", "date">>
    [] kw = "academic background"     -> <<"academic", "background">>
    [] kw = "academic qualifications" -> <<"academic", "qualifications">>
    [] kw = "educational background"  -> <<"educational", "background">>
    [] kw = "work experience"         -> <<"work", "experience">>
    [] kw = "professional experience" -> <<"professional", "experience">>
    [] kw = "work history"            -> <<"work", "history">>
    [] kw = "professional background" -> <<"professional", "background">>
    [] OTHER                          -> << kw >>

\* keyword occurs in the token (String.prototype.includes on lower case)
TokHas(tok, kw) == tok.t = "word" /\ kw \in WordInfo(tok.w).has

\* the words of a phrase stand at tokens i, i+1, ... separated by one blank
PhraseAt(line, i, words) ==
  /\ i + Len(words) - 1 <= Len(line)
  /\ \A k \in 1..Len(words) :
       line[i + k - 1].t = "word" /\ line[i + k - 1].w = words[k]

LineIncludes(line, kw) ==
  IF Len(Phrase(kw)) = 1
  THEN \E i \in 1..Len(line) : TokHas(line[i], kw)
  ELSE \E i \in 1..Len(line) : PhraseAt(line, i, Phrase(kw))

LineIncludesAny(line, kws) == \E kw \in kws : LineIncludes(line, kw)

\* blanks written before token i of a line
SepBefore(line, i) ==
  IF i = 1 THEN 0
  ELSE IF line[i].t = "slash" \/ line[i - 1].t = "slash" THEN 0 ELSE 1

RECURSIVE TokOffset(_, _)
\* character offset of token i within its line
TokOffset(line, i) ==
  IF i = 1 THEN 0
  ELSE TokOffset(line, i - 1) + line[i - 1].len + SepBefore(line, i)

\* String.length of a line
LineLen(line) ==
  IF Len(line) = 0 THEN 0 ELSE TokOffset(line, Len(line)) + line[Len(line)].len

RECURSIVE LineStart(_, _)
\* character offset of line k in lines.join('\n')
LineStart(lines, k) ==
  IF k = 1 THEN 0 ELSE LineStart(lines, k - 1) + LineLen(lines[k - 1]) + 1

RECURSIVE FlatFrom(_, _, _)
FlatFrom(lines, k, i) ==
  IF k > Len(lines) THEN << >>
  ELSE IF i > Len(lines[k]) THEN FlatFrom(lines, k + 1, 1)
  ELSE << [tok   |-> lines[k][i],
           start |-> LineStart(lines, k) + TokOffset(lines[k], i),
           line  |-> k,
           first |-> (i = 1)] >>
       \o FlatFrom(lines, k, i + 1)

\* The tokens of a text in reading order, each with its character offset.
Flat(lines) == FlatFrom(lines, 1, 1)

(***************************************************************************)
(* Date parser (ResumeDateParser).                                         *)
(***************************************************************************)
\* DateFormat
MONTH_YEAR == "MM/YYYY"
YEAR_ONLY == "YYYY"
FULL_DATE == "MM/DD/YYYY"
PRESENT == "PRESENT"

\* ONGOING_KEYWORDS
ONGOING_KEYWORDS ==
  {"present", "current", "ongoing", "now", "today", "till date", "to date",
   "continuing"}

monthNames == MonthNames

monthAbbreviations ==
  <<"jan", "feb", "mar", "apr", "may", "jun", "jul", "aug", "sep", "oct",
    "nov", "dec">>

\* a month name as it is spelled in the text: m is the month, len the
\* number of letters
MonthWord(spelling, m, len) == Tok("month", spelling, m, len)

\* String.prototype.toLowerCase on the spellings that have capital letters
toLowerCase(w) ==
  CASE w = "January"  -> "january"
    [] w = "University" -> "university"
    [] w = "JAN"      -> "jan"
    [] w = "Sep"      -> "sep"
    [] w = "DECEMBER" -> "december"
    [] w = "mAy"      -> "may"
    [] OTHER          -> w

\* Array.prototype.indexOf, zero based, -1 when absent
IndexOf(seq, x) ==
  IF \E i \in 1..Len(seq) : seq[i] = x
  THEN (CHOOSE i \in 1..Len(seq) :
          seq[i] = x /\ \A j \in 1..(i - 1) : seq[j] # x) - 1
  ELSE -1

\* null result of a parser
NoParse ==
  [ok |-> FALSE, normalized |-> NoDate, format |-> "", isOngoing |-> FALSE,
   confidence |-> 0]

Parsed(date, format, ongoing, confidence) ==
  [ok |-> TRUE, normalized |-> date, format |-> format,
   isOngoing |-> ongoing, confidence |-> confidence]

isOngoingIndicator(toks) == LineIncludesAny(toks, ONGOING_KEYWORDS)

isValidYear(year, clock) == year >= 1950 /\ year <= clock.y + 10

isValidDate(month, day, year, clock) ==
  /\ ~(month < 1 \/ month > 12)
  /\ ~(day < 1 \/ day > 31)
  /\ isValidYear(year, clock)
  /\ day <= DaysInMonth(year, month)

\* \b(month name)\s+(\d{4})\b at token i of toks
IsMonthYearAt(toks, i) ==
  /\ i + 1 <= Len(toks)
  /\ toks[i].t = "month"
  /\ toks[i + 1].t = "num" /\ toks[i + 1].len = 4

\* \b(19|20)\d{2}\b at token i
IsYearAt(toks, i) ==
  /\ i <= Len(toks)
  /\ toks[i].t = "num" /\ toks[i].len = 4
  /\ toks[i].v \div 100 \in {19, 20}

\* \b(\d{1,2})\/(\d{1,2})\/(\d{4})\b at token i
IsFullDateAt(toks, i) ==
  /\ i + 4 <= Len(toks)
  /\ toks[i].t = "num" /\ toks[i].len <= 2
  /\ toks[i + 1].t = "slash"
  /\ toks[i + 2].t = "num" /\ toks[i + 2].len <= 2
  /\ toks[i + 3].t = "slash"
  /\ toks[i + 4].t = "num" /\ toks[i + 4].len = 4

\* index of the first token at which P holds, 0 when there is none
FirstAt(toks, P(_, _)) ==
  IF \E i \in 1..Len(toks) : P(toks, i)
  THEN CHOOSE i \in 1..Len(toks) :
         P(toks, i) /\ \A j \in 1..(i - 1) : ~P(toks, j)
  ELSE 0

parseMonthYear(toks, clock) ==
  LET i == FirstAt(toks, IsMonthYearAt) IN
  IF i = 0 THEN NoParse
  ELSE
    LET monthStr == toLowerCase(toks[i].w)
        year     == toks[i + 1].v
        abbrIdx  == IndexOf(monthAbbreviations, monthStr)
        monthIndex ==
          IF abbrIdx = -1 THEN IndexOf(monthNames, monthStr) ELSE abbrIdx
    IN  IF monthIndex # -1 /\ isValidYear(year, clock)
        THEN Parsed(MkDate(year, monthIndex + 1, 1), MONTH_YEAR, FALSE,
                    EXACT_MATCH)
        ELSE NoParse

parseYearOnly(toks, clock) ==
  LET i == FirstAt(toks, IsYearAt) IN
  IF i = 0 THEN NoParse
  ELSE IF isValidYear(toks[i].v, clock)
       THEN Parsed(MkDate(toks[i].v, 1, 1), YEAR_ONLY, FALSE, PATTERN_MATCH)
       ELSE NoParse

parseFullDate(toks, clock) ==
  LET i == FirstAt(toks, IsFullDateAt) IN
  IF i = 0 THEN NoParse
  ELSE
    LET month == toks[i].v
        day   == toks[i + 2].v
        year  == toks[i + 4].v
    IN  IF isValidDate(month, day, year, clock)
        THEN Parsed(MkDate(year, month, day), FULL_DATE, FALSE, EXACT_MATCH)
        ELSE NoParse

\* parseDate(dateString): the string is the token sequence toks
parseDate(toks, clock) ==
  IF Len(toks) = 0 THEN NoParse
  ELSE IF isOngoingIndicator(toks)
  THEN Parsed(clock, PRESENT, TRUE, EXACT_MATCH)
  ELSE
    LET my == parseMonthYear(toks, clock)
        yo == parseYearOnly(toks, clock)
        fd == parseFullDate(toks, clock)
    IN  IF my.ok THEN my ELSE IF yo.ok THEN yo ELSE IF fd.ok THEN fd
        ELSE NoParse

(***************************************************************************)
(* Text extractor (extractDatesFromText).                                  *)
(***************************************************************************)
\* the guard against runaway matching: the loop breaks once matchCount > 200
MaxMatches == 200

PRESENT_INDICATORS == {"present", "current", "ongoing", "now", "today"}

TokSeq(flat, i, n) == [k \in 1..n |-> flat[i + k - 1].tok]

\* tokens i and i+1 are written without white space between them
Tight(flat, i) ==
  /\ flat[i].line = flat[i + 1].line
  /\ (flat[i].tok.t = "slash" \/ flat[i + 1].tok.t = "slash")

\* Number of tokens the pattern matches at position i of flat, 0 for none.
MatchLen(flat, i, type) ==
  LET toks == [k \in 1..Len(flat) |-> flat[k].tok] IN
  CASE type = "month_year" ->
         IF IsMonthYearAt(toks, i) /\ ~Tight(flat, i) THEN 2 ELSE 0
    [] type = "full_date" ->
         IF /\ IsFullDateAt(toks, i)
            /\ \A k \in 0..3 : Tight(flat, i + k)
         THEN 5 ELSE 0
    [] type = "year_only" -> IF IsYearAt(toks, i) THEN 1 ELSE 0
    [] type = "present" ->
         IF toks[i].t = "word" /\ toks[i].w \in PRESENT_INDICATORS
         THEN 1 ELSE 0
    \* (\d{4})\s*[-]\s*(\d{4}|present|current) has no word boundary: it
    \* matches the last four digits of a longer number before the dash and
    \* the first four digits of a longer number after it
    [] type = "date_range" ->
         IF /\ i + 2 <= Len(flat)
            /\ toks[i].t = "num" /\ toks[i].len >= 4
            /\ toks[i + 1].t = "dash"
            /\ \/ toks[i + 2].t = "num" /\ toks[i + 2].len >= 4
               \/ toks[i + 2].t = "word"
                  /\ toks[i + 2].w \in {"present", "current"}
         THEN 3 ELSE 0

ExtractedDate(text, startIndex, endIndex, parsedDate) ==
  [text |-> text, startIndex |-> startIndex, endIndex |-> endIndex,
   parsedDate |-> parsedDate]

EndOf(flat, i) == flat[i].start + flat[i].tok.len

\* match[1] of DATE_RANGE at token i: the last four digits of the number
StartYear(flat, i) == Num(flat[i].tok.v % 10000, 4)

\* match[2] of DATE_RANGE at token i: the first four digits of the number
\* after the dash, or the word
EndPart(flat, i) ==
  IF flat[i + 2].tok.t = "num"
  THEN Num(flat[i + 2].tok.v \div 10^(flat[i + 2].tok.len - 4), 4)
  ELSE flat[i + 2].tok

\* match.index of DATE_RANGE at token i
RangeIndex(flat, i) == flat[i].start + flat[i].tok.len - 4

\* extractDateRange: both sides parsed on their own, pushed when they parse;
\* the end part is placed at fullMatch.indexOf(endPart).
extractDateRange(flat, i, clock) ==
  LET startYear == << StartYear(flat, i) >>
      endPart   == << EndPart(flat, i) >>
      startDate == parseDate(startYear, clock)
      endDate   == parseDate(endPart, clock)
      endStartIndex ==
        IF endPart = startYear THEN RangeIndex(flat, i)
        ELSE flat[i + 2].start
  IN  (IF startDate.ok
       THEN << ExtractedDate(startYear, RangeIndex(flat, i),
                             RangeIndex(flat, i) + 4, startDate) >>
       ELSE << >>)
      \o
      (IF endDate.ok
       THEN << ExtractedDate(endPart, endStartIndex,
                             endStartIndex + endPart[1].len, endDate) >>
       ELSE << >>)

\* the token regex.exec searches from after a match at token i: the token
\* behind the match, or the number that ends a DATE_RANGE match when it has
\* four more digits to start the next match with
AfterMatch(flat, i, type) ==
  IF /\ type = "date_range"
     /\ flat[i + 2].tok.t = "num" /\ flat[i + 2].tok.len >= 8
  THEN i + 2
  ELSE i + MatchLen(flat, i, type)

RECURSIVE ScanPattern(_, _, _, _, _)
\* the while loop over regex.exec for one pattern, from token i on,
\* count matches processed so far
ScanPattern(flat, i, type, count, clock) ==
  IF i > Len(flat) \/ count > MaxMatches THEN << >>
  ELSE
    LET n == MatchLen(flat, i, type) IN
    IF n = 0 THEN ScanPattern(flat, i + 1, type, count, clock)
    ELSE
      (IF type = "date_range" THEN extractDateRange(flat, i, clock)
       ELSE << ExtractedDate(TokSeq(flat, i, n), flat[i].start,
                             EndOf(flat, i + n - 1),
                             parseDate(TokSeq(flat, i, n), clock)) >>)
      \o ScanPattern(flat, AfterMatch(flat, i, type), type, count + 1, clock)

\* the filter of deduplicateAndSort: the first entry of each
\* (startIndex, text) pair is kept
Deduplicate(dates) ==
  SelectSeq([k \in 1..Len(dates) |-> [e |-> dates[k], k |-> k]],
            LAMBDA x :
              \A j \in 1..(x.k - 1) :
                ~(dates[j].startIndex = x.e.startIndex
                  /\ dates[j].text = x.e.text))

\* a sort that leaves the items as they are
Unsorted(items) == items

\* Array.prototype.sort with a comparator (a, b) => key(a) - key(b):
\* ascending and stable, so an item comes after the items of smaller key
\* and after the items of equal key that stood before it.  The items are
\* records [key, val].
SortByKey(items) ==
  Bind([k \in 1..Len(items) |->
          1 + Cardinality({j \in 1..Len(items) :
                             \/ items[j].key < items[k].key
                             \/ items[j].key = items[k].key /\ j < k})],
    LAMBDA place :
      [r \in 1..Len(items) |->
         items[CHOOSE k \in 1..Len(items) : place[k] = r]])

Vals(items) == [k \in 1..Len(items) |-> items[k].val]

deduplicateAndSort(extractedDates) ==
  LET unique == Deduplicate(extractedDates)
  IN  Vals(SortByKey([k \in 1..Len(unique) |->
                        [key |-> unique[k].e.startIndex,
                         val |-> unique[k].e]]))

PatternTypes ==
  <<"month_year", "full_date", "year_only", "present", "date_range">>

\* the pattern itself, with the lastIndex it has
SharedRegExp(type) ==
  IF type \in DOMAIN lastIndex THEN lastIndex[type] ELSE 0

\* new RegExp(pattern.regex.source, pattern.regex.flags): the lastIndex of
\* the regular expression the loop runs, 0 whatever the pattern's own is
NewRegExp(type) == 0

\* the first token that starts at or after the character offset li
FirstFrom(flat, li) ==
  1 + Cardinality({i \in 1..Len(flat) : flat[i].start < li})

RECURSIVE ScanAll(_, _, _)
ScanAll(flat, p, clock) ==
  IF p > Len(PatternTypes) THEN << >>
  ELSE ScanPattern(flat, FirstFrom(flat, NewRegExp(PatternTypes[p])),
                   PatternTypes[p], 0, clock)
       \o ScanAll(flat, p + 1, clock)

\* extractDatesFromText(text) where text is lines.join('\n')
extractDatesFromText(lines, clock) ==
  IF Len(Flat(lines)) = 0 THEN << >>
  ELSE deduplicateAndSort(ScanAll(Flat(lines), 1, clock))

\* RegExp.prototype.test of a pattern with the global flag whose lastIndex
\* is li: the search starts at li; a match leaves lastIndex behind the
\* match, a failure leaves it at 0
RegExpTest(flat, type, li) ==
  LET hits == {i \in 1..Len(flat) :
                 flat[i].start >= li /\ MatchLen(flat, i, type) > 0}
  IN  IF hits = {} THEN [found |-> FALSE, lastIndex |-> 0]
      ELSE LET i == CHOOSE h \in hits : \A j \in hits : h <= j
           IN  [found |-> TRUE,
                lastIndex |-> EndOf(flat, i + MatchLen(flat, i, type) - 1)]

\* detectDateFormat(text) of a text with some token: the format, and the
\* lastIndex the two patterns it tests are left with
detectDateFormat(lines, li) ==
  IF \E k \in 1..Len(lines) : isOngoingIndicator(lines[k])
  THEN [format |-> PRESENT, lastIndex |-> li]
  ELSE
    LET my == RegExpTest(Flat(lines), "month_year", li["month_year"])
        fd == RegExpTest(Flat(lines), "full_date", li["full_date"])
    IN  IF my.found
        THEN [format |-> MONTH_YEAR,
              lastIndex |-> [li EXCEPT !["month_year"] = my.lastIndex]]
        ELSE IF fd.found
        THEN [format |-> FULL_DATE,
              lastIndex |-> [li EXCEPT !["month_year"] = 0,
                                       !["full_date"] = fd.lastIndex]]
        ELSE [format |-> YEAR_ONLY,
              lastIndex |-> [li EXCEPT !["month_year"] = 0,
                                       !["full_date"] = 0]]

(***************************************************************************)
(* Section segmenter (extractEducationSections, extractWorkSections).      *)
(***************************************************************************)
EDUCATION_KEYWORDS ==
  {"university", "college", "school", "degree", "bachelor", "master", "phd",
   "doctorate", "diploma", "certificate", "graduation", "graduated",
   "education", "academic", "student"}

WORK_KEYWORDS ==
  {"company", "corporation", "inc", "ltd", "llc", "work", "job", "position",
   "role", "employment", "experience", "career", "professional", "intern",
   "internship", "volunteer"}

isEducationSectionHeader(line) ==
  LineIncludesAny(line,
    {"education", "academic background", "academic qualifications",
     "educational background", "qualifications", "degrees"})

isWorkSectionHeader(line) ==
  LineIncludesAny(line,
    {"experience", "work experience", "professional experience",
     "employment", "career", "work history", "professional background"})

isNonEducationSectionHeader(line) ==
  LineIncludesAny(line,
    {"experience", "work", "skills", "projects", "certifications",
     "achievements", "awards", "publications", "references"})

isNonWorkSectionHeader(line) ==
  LineIncludesAny(line,
    {"education", "skills", "projects", "certifications", "achievements",
     "awards", "publications", "references"})

containsEducationKeywords(line) == LineIncludesAny(line, EDUCATION_KEYWORDS)

containsWorkKeywords(line) == LineIncludesAny(line, WORK_KEYWORDS)

containsCompanyIndicators(line) ==
  LineIncludesAny(line, {"inc", "corp", "ltd", "llc", "company", "corporation"})

\* lines.slice(max(0, index - contextSize), min(length, index + contextSize + 1))
getContextLines(lines, index, contextSize) ==
  SubSeq(lines, Max(1, index - contextSize), Min(Len(lines), index + contextSize))

\* String.prototype.trim on a text: empty lines at both ends disappear
RECURSIVE TrimLines(_)
TrimLines(lines) ==
  IF Len(lines) = 0 THEN lines
  ELSE IF Len(lines[1]) = 0 THEN TrimLines(Tail(lines))
  ELSE IF Len(lines[Len(lines)]) = 0
       THEN TrimLines(SubSeq(lines, 1, Len(lines) - 1))
  ELSE lines

\* text.trim() is not the empty string
NonBlank(lines) == \E k \in 1..Len(lines) : Len(lines[k]) > 0

RECURSIVE ScanSections(_, _, _, _)
\* the loop over the lines shared by both segmenters; st is the loop state
\* [sections, currentSection, inSection, sectionStarted]
ScanSections(kind, lines, i, st) ==
  LET line     == lines[i]
      isHeader == IF kind = "education" THEN isEducationSectionHeader(line)
                  ELSE isWorkSectionHeader(line)
      isOther  == IF kind = "education" THEN isNonEducationSectionHeader(line)
                  ELSE isNonWorkSectionHeader(line)
      hasKw    == IF kind = "education" THEN containsEducationKeywords(line)
                  ELSE containsWorkKeywords(line)
  IN
  IF i > Len(lines)
  THEN IF st.inSection /\ NonBlank(st.currentSection)
       THEN Append(st.sections, TrimLines(st.currentSection))
       ELSE st.sections
  ELSE IF isHeader
  THEN ScanSections(kind, lines, i + 1,
         [sections |->
            IF st.sectionStarted /\ NonBlank(st.currentSection)
            THEN Append(st.sections, TrimLines(st.currentSection))
            ELSE st.sections,
          currentSection |-> << line >>,
          inSection |-> TRUE, sectionStarted |-> TRUE])
  ELSE IF isOther /\ st.inSection
  THEN ScanSections(kind, lines, i + 1,
         [sections |->
            IF NonBlank(st.currentSection)
            THEN Append(st.sections, TrimLines(st.currentSection))
            ELSE st.sections,
          currentSection |-> << >>,
          inSection |-> FALSE, sectionStarted |-> FALSE])
  ELSE IF st.inSection
  THEN ScanSections(kind, lines, i + 1,
         [st EXCEPT !.currentSection = Append(@, line)])
  ELSE IF ~st.sectionStarted /\ hasKw
  THEN ScanSections(kind, lines, i + 1,
         [st EXCEPT !.sections = Append(@, getContextLines(lines, i, 2))])
  ELSE ScanSections(kind, lines, i + 1, st)

ScanStart ==
  [sections |-> << >>, currentSection |-> << >>, inSection |-> FALSE,
   sectionStarted |-> FALSE]

extractEducationSections(lines) == ScanSections("education", lines, 1, ScanStart)

extractWorkSections(lines) == ScanSections("work", lines, 1, ScanStart)

(***************************************************************************)
(* Period builder (parseEducationSection, parseWorkSection).               *)
(***************************************************************************)
\* /\d{4}|present|current/gi matches and the line is shorter than 50
isDateLine(line) ==
  /\ \E i \in 1..Len(line) :
       \/ line[i].t = "num" /\ line[i].len >= 4
       \/ TokHas(line[i], "present")
       \/ TokHas(line[i], "current")
  /\ LineLen(line) < 50

isDegreeOnlyLine(line) ==
  /\ LineIncludesAny(line,
       {"bachelor", "master", "phd", "b.s.", "b.a.", "m.s.", "m.a."})
  /\ LineLen(line) < 100

isPositionOnlyLine(line) ==
  /\ LineIncludesAny(line, {"manager", "director", "engineer", "developer"})
  /\ LineLen(line) < 50

\* Array.prototype.find on a list of lines; the empty line stands for
\* undefined / null (no line found is never confused with a found line,
\* the lines searched are not empty)
FindLine(lines, P(_)) ==
  IF \E k \in 1..Len(lines) : P(lines[k])
  THEN lines[CHOOSE k \in 1..Len(lines) :
               P(lines[k]) /\ \A j \in 1..(k - 1) : ~P(lines[j])]
  ELSE << >>

NoLine == << >>

extractInstitution(lines) ==
  LET IsNamed(line) ==
        /\ ~(isDateLine(line) \/ isDegreeOnlyLine(line))
        /\ LineIncludesAny(line, {"university", "college", "school", "institute"})
      IsSubstantial(line) ==
        LineLen(line) > 5 /\ ~isDateLine(line) /\ ~isDegreeOnlyLine(line)
      named == FindLine(lines, IsNamed)
  IN  IF named # NoLine THEN named ELSE FindLine(lines, IsSubstantial)

extractDegree(lines) ==
  LET HasDegree(line) ==
        LineIncludesAny(line,
          {"bachelor", "master", "phd", "doctorate", "diploma", "certificate",
           "b.s.", "b.a.", "m.s.", "m.a.", "ph.d.", "mba", "degree"})
  IN  FindLine(lines, HasDegree)

extractCompany(lines) ==
  LET IsNamed(line) ==
        /\ ~(isDateLine(line) \/ isPositionOnlyLine(line))
        /\ LineIncludesAny(line, {"inc", "corp", "ltd", "llc", "company"})
      IsSubstantial(line) ==
        LineLen(line) > 3 /\ ~isDateLine(line) /\ ~isPositionOnlyLine(line)
      named == FindLine(lines, IsNamed)
  IN  IF named # NoLine THEN named ELSE FindLine(lines, IsSubstantial)

extractPosition(lines) ==
  LET HasTitle(line) ==
        LineIncludesAny(line,
          {"manager", "director", "engineer", "developer", "analyst",
           "consultant", "intern", "associate", "specialist", "coordinator",
           "assistant", "lead"})
      IsTitleLine(line) ==
        /\ LineLen(line) > 5 /\ LineLen(line) < 50
        /\ ~isDateLine(line) /\ ~containsCompanyIndicators(line)
      titled == FindLine(lines, HasTitle)
  IN  IF titled # NoLine THEN titled ELSE FindLine(lines, IsTitleLine)

determineDateRange(extractedDates) ==
  LET isOngoing ==
        \E k \in 1..Len(extractedDates) :
          extractedDates[k].parsedDate.ok
          /\ extractedDates[k].parsedDate.isOngoing
      kept == SelectSeq(extractedDates,
                LAMBDA e : e.parsedDate.ok /\ ~e.parsedDate.isOngoing)
      actualDates ==
        Vals(SortByKey([k \in 1..Len(kept) |->
                          [key |-> getTime(kept[k].parsedDate.normalized),
                           val |-> kept[k].parsedDate]]))
      n == Len(actualDates)
  IN  IF Len(extractedDates) = 0
      THEN [startDate |-> NoDate, endDate |-> NoDate, isOngoing |-> FALSE]
      ELSE IF n = 1
      THEN IF isOngoing
           THEN [startDate |-> actualDates[1].normalized, endDate |-> NoDate,
                 isOngoing |-> isOngoing]
           ELSE [startDate |-> NoDate, endDate |-> actualDates[1].normalized,
                 isOngoing |-> isOngoing]
      ELSE IF n >= 2
      THEN [startDate |-> actualDates[1].normalized,
            endDate   |-> IF isOngoing THEN NoDate
                          ELSE actualDates[n].normalized,
            isOngoing |-> isOngoing]
      ELSE [startDate |-> NoDate, endDate |-> NoDate, isOngoing |-> isOngoing]

calculateEducationConfidence(institution, degree, extractedDates) ==
  PeriodConfidence(
    << IF institution # NoLine THEN 20000 ELSE 0,
       IF institution # NoLine
          /\ LineIncludesAny(institution, {"university", "college"})
       THEN 10000 ELSE 0,
       IF degree # NoLine THEN 20000 ELSE 0 >>,
    extractedDates)

calculateWorkConfidence(company, position, extractedDates) ==
  PeriodConfidence(
    << IF company # NoLine THEN 20000 ELSE 0,
       IF company # NoLine /\ containsCompanyIndicators(company)
       THEN 10000 ELSE 0,
       IF position # NoLine THEN 20000 ELSE 0 >>,
    extractedDates)

UnknownInstitution == << W("unknown"), W("institution") >>
UnknownCompany == << W("unknown"), W("company") >>
UnknownPosition == << W("unknown"), W("position") >>

NonEmptyLines(lines) == SelectSeq(lines, LAMBDA line : Len(line) > 0)

\* null result of parseEducationSection / parseWorkSection
NoPeriod == [none |-> TRUE]

EducationPeriod(institution, degree, range, sectionText, extractedDates) ==
  [institution  |-> IF institution # NoLine THEN institution
                    ELSE UnknownInstitution,
   degree       |-> degree,
   startDate    |-> range.startDate,
   endDate      |-> range.endDate,
   isOngoing    |-> range.isOngoing,
   originalText |-> sectionText,
   confidence   |->
     calculateEducationConfidence(institution, degree, extractedDates)]

parseEducationSection(sectionText, clock) ==
  Bind(extractDatesFromText(sectionText, clock),
    LAMBDA extractedDates :
      IF Len(extractedDates) = 0 THEN NoPeriod
      ELSE Bind([institution |-> extractInstitution(NonEmptyLines(sectionText)),
                 degree |-> extractDegree(NonEmptyLines(sectionText)),
                 range |-> determineDateRange(extractedDates)],
             LAMBDA p : EducationPeriod(p.institution, p.degree, p.range,
                                        sectionText, extractedDates)))

WorkExperience(company, position, range, sectionText, extractedDates) ==
  [company      |-> IF company # NoLine THEN company ELSE UnknownCompany,
   position     |-> IF position # NoLine THEN position ELSE UnknownPosition,
   startDate    |-> range.startDate,
   endDate      |-> range.endDate,
   isOngoing    |-> range.isOngoing,
   originalText |-> sectionText,
   confidence   |-> calculateWorkConfidence(company, position, extractedDates)]

parseWorkSection(sectionText, clock) ==
  Bind(extractDatesFromText(sectionText, clock),
    LAMBDA extractedDates :
      IF Len(extractedDates) = 0 THEN NoPeriod
      ELSE Bind([company |-> extractCompany(NonEmptyLines(sectionText)),
                 position |-> extractPosition(NonEmptyLines(sectionText)),
                 range |-> determineDateRange(extractedDates)],
             LAMBDA p : WorkExperience(p.company, p.position, p.range,
                                       sectionText, extractedDates)))

RECURSIVE BuildEducation(_, _)
BuildEducation(sections, clock) ==
  IF Len(sections) = 0 THEN << >>
  ELSE LET period == parseEducationSection(sections[1], clock)
       IN  (IF period = NoPeriod THEN << >> ELSE << period >>)
           \o BuildEducation(Tail(sections), clock)

RECURSIVE BuildWork(_, _)
BuildWork(sections, clock) ==
  IF Len(sections) = 0 THEN << >>
  ELSE LET experience == parseWorkSection(sections[1], clock)
       IN  (IF experience = NoPeriod THEN << >> ELSE << experience >>)
           \o BuildWork(Tail(sections), clock)

\* parseEducationDates(text) for a non-empty text given as its lines
parseEducationDates(lines, clock) ==
  IF ~NonBlank(lines) THEN << >>
  ELSE BuildEducation(extractEducationSections(lines), clock)

parseWorkExperience(lines, clock) ==
  IF ~NonBlank(lines) THEN << >>
  ELSE BuildWork(extractWorkSections(lines), clock)

(***************************************************************************)
(* Strings the engine builds.  A string is a record: its kind (which       *)
(* template it was built from), the dates, the numbers and the names       *)
(* (lines of tokens) substituted into the template.                        *)
(***************************************************************************)
Txt(k, d, n, w) ==
  [k |-> k, d |-> [i \in 1..Len(d) |-> Day(d[i])], n |-> n, w |-> w]

\* undefined
NoTxt == Txt("", << >>, << >>, << >>)

\* a fixed string
Lit(k) == Txt(k, << >>, << >>, << >>)

\* Date.prototype.toLocaleDateString(): "M/D/YYYY"
toLocaleDateString(date) == Txt("date", << date >>, << >>, << >>)

\* `${a.toLocaleDateString()} - ${b.toLocaleDateString()}`
DateSpan(a, b) == Txt("span", << a, b >>, << >>, << >>)

\* ceil(a / b) for a >= 0 or a < 0, b > 0
CeilDiv(a, b) == IF a >= 0 THEN (a + b - 1) \div b ELSE -((-a) \div b)

\* the substrings the engine looks for in its own messages; the names
\* substituted into a message are lines of vocabulary words, none of which
\* holds one of the parts
MsgHas(msg, part) ==
  CASE part = "future" ->
         msg.k \in {"edu_graduation_far", "edu_graduation_future",
                    "edu_start_future", "work_end_far", "work_end_future",
                    "work_start_far", "rule_impossible_future"}
    [] part = "start date" ->
         msg.k \in {"edu_start_future", "edu_order", "work_start_far",
                    "work_order"}
    [] part = "end date" ->
         msg.k \in {"edu_order", "work_end_far", "work_end_future",
                    "work_order"}
    [] part = "after" -> msg.k \in {"edu_order", "work_order"}
    [] part = "unusually long" -> msg.k = "edu_long"
    [] part = "seems short" -> msg.k = "edu_short"
    [] part = "error" ->
         msg.k \in {"edu_validation_skipped", "work_validation_skipped",
                    "rules_skipped", "suggestions_skipped",
                    "unavailable"}
    [] part = "skipped" ->
         msg.k \in {"edu_validation_skipped", "work_validation_skipped",
                    "rules_skipped", "suggestions_skipped"}
    \* the two messages about a graduation date begin "Graduation date"
    [] part = "graduation date" -> FALSE
    [] OTHER -> FALSE

(***************************************************************************)
(* Timeline validators.  Differences of getTime() are whole hours; a       *)
(* quotient by 365.25 or 30.44 days is compared by cross multiplication.   *)
(***************************************************************************)
ValidationIssue(type, category, message, detectedDate, suggestedFix, confidence) ==
  [type |-> type, category |-> category, message |-> message,
   detectedDate |-> detectedDate, suggestedFix |-> suggestedFix,
   confidence |-> confidence]

\* the hours of 365.25 days and of 30.44 days, times 100
YearHours == 24 * 36525
MonthHours == 24 * 3044

\* (b - a) / (1000 * 60 * 60 * 24 * 365.25) > n
YearsMoreThan(a, b, n) == (getTime(b) - getTime(a)) * 100 > n * YearHours
\* (b - a) / (1000 * 60 * 60 * 24 * 30.44) > n
MonthsMoreThan(a, b, n) == (getTime(b) - getTime(a)) * 100 > n * MonthHours
\* Math.ceil of the quotients
CeilYears(a, b) == CeilDiv((getTime(b) - getTime(a)) * 100, YearHours)
CeilMonths(a, b) == CeilDiv((getTime(b) - getTime(a)) * 100, MonthHours)

\* endDate?.getTime() || Date.now(): a missing date and time 0 give now
EndOrNow(endDate, clock) ==
  IF endDate = NoDate \/ getTime(endDate) = 0 THEN getTime(clock)
  ELSE getTime(endDate)

hasEducationOverlap(period1, period2, clock) ==
  IF period1.startDate = NoDate \/ period2.startDate = NoDate THEN FALSE
  ELSE /\ getTime(period1.startDate) < EndOrNow(period2.endDate, clock)
       /\ getTime(period2.startDate) < EndOrNow(period1.endDate, clock)

\* String.prototype.toLowerCase on a line of words
LineToLowerCase(line) ==
  [i \in DOMAIN line |-> [line[i] EXCEPT !.w = toLowerCase(@)]]

isValidEducationOverlap(period1, period2) ==
  \/ LineToLowerCase(period1.institution)
       = LineToLowerCase(period2.institution)
  \/ LineIncludesAny(period1.degree, {"certificate", "diploma"})
  \/ LineIncludesAny(period2.degree, {"certificate", "diploma"})
  \/ /\ period1.startDate # NoDate /\ period1.endDate # NoDate
     /\ period2.startDate # NoDate /\ period2.endDate # NoDate
     /\ LET overlapStart == Max(getTime(period1.startDate), getTime(period2.startDate))
            overlapEnd   == Min(getTime(period1.endDate), getTime(period2.endDate))
        IN  (overlapEnd - overlapStart) * 100 < 6 * MonthHours

\* a loop body that reports nothing
NoEducationPeriodIssues(period, clock, cfg) == << >>

\* the body of the loop over the periods of validateEducationTimeline
EducationPeriodIssues(period, clock, cfg) ==
  LET bothDates ==
        period.startDate # NoDate /\ period.endDate # NoDate /\ ~period.isOngoing
      graduation ==
        IF period.endDate # NoDate /\ ~period.isOngoing
        THEN IF YearsMoreThan(clock, period.endDate, cfg.maxFutureEducationYears)
             THEN << ValidationIssue("critical", "education",
                       Txt("edu_graduation_far", << >>,
                           << period.endDate.y, cfg.maxFutureEducationYears >>,
                           << >>),
                       toLocaleDateString(period.endDate),
                       Txt("fix_check_year", << >>, << period.endDate.y - 10 >>,
                           << >>),
                       90000) >>
             ELSE IF YearsMoreThan(clock, period.endDate, 2)
             THEN << ValidationIssue("warning", "education",
                       Txt("edu_graduation_future", << >>,
                           << period.endDate.y, CeilYears(clock, period.endDate) >>,
                           << >>),
                       toLocaleDateString(period.endDate), NoTxt, 70000) >>
             ELSE << >>
        ELSE << >>
      start ==
        IF period.startDate # NoDate /\ MonthsMoreThan(clock, period.startDate, 3)
        THEN << ValidationIssue("critical", "education",
                  Txt("edu_start_future", << period.startDate >>, << >>, << >>),
                  toLocaleDateString(period.startDate),
                  Txt("fix_verify_or_year", << >>, << period.startDate.y - 1 >>,
                      << >>),
                  85000) >>
        ELSE << >>
      order ==
        IF bothDates /\ getTime(period.startDate) >= getTime(period.endDate)
        THEN << ValidationIssue("critical", "education",
                  Txt("edu_order", << period.startDate, period.endDate >>,
                      << >>, << >>),
                  DateSpan(period.startDate, period.endDate),
                  Lit("fix_order"), 95000) >>
        ELSE << >>
      duration ==
        IF bothDates
        THEN IF YearsMoreThan(period.startDate, period.endDate, 10)
             THEN << ValidationIssue("warning", "education",
                       Txt("edu_long", << >>,
                           << CeilYears(period.startDate, period.endDate) >>,
                           << period.institution >>),
                       DateSpan(period.startDate, period.endDate), NoTxt,
                       60000) >>
             ELSE IF /\ (getTime(period.endDate)
                           - getTime(period.startDate)) * 200 < YearHours
                     /\ LineIncludes(period.degree, "degree")
             THEN << ValidationIssue("suggestion", "education",
                       Txt("edu_short", << >>,
                           << CeilDiv((getTime(period.endDate)
                                         - getTime(period.startDate)) * 1200,
                                      YearHours) >>, << >>),
                       DateSpan(period.startDate, period.endDate), NoTxt,
                       50000) >>
             ELSE << >>
        ELSE << >>
      ongoing ==
        IF /\ period.isOngoing /\ period.startDate # NoDate
           /\ YearsMoreThan(period.startDate, clock, 8)
        THEN << ValidationIssue("warning", "education",
                  Txt("edu_ongoing_long", << >>,
                      << CeilYears(period.startDate, clock) >>, << >>),
                  toLocaleDateString(period.startDate), NoTxt, 70000) >>
        ELSE << >>
  IN  graduation \o start \o order \o duration \o ongoing

RECURSIVE EducationLoop(_, _, _)
\* the loop over the periods
EducationLoop(education, clock, cfg) ==
  IF Len(education) = 0 THEN << >>
  ELSE EducationPeriodIssues(education[1], clock, cfg)
       \o EducationLoop(Tail(education), clock, cfg)

\* `${start || 'Unknown'} - ${end || 'Present'} overlaps with ...`
OverlapText(p1, p2) ==
  Txt("overlap", << p1.startDate, p1.endDate, p2.startDate, p2.endDate >>,
      << >>, << >>)

RECURSIVE EducationOverlapIssues(_, _, _, _)
\* the nested loops over the pairs i < j
EducationOverlapIssues(education, i, j, clock) ==
  IF i > Len(education) THEN << >>
  ELSE IF j > Len(education)
  THEN EducationOverlapIssues(education, i + 1, i + 2, clock)
  ELSE (IF /\ hasEducationOverlap(education[i], education[j], clock)
           /\ ~isValidEducationOverlap(education[i], education[j])
        THEN << ValidationIssue("suggestion", "education",
                  Txt("edu_overlap", << >>, << >>,
                      << education[i].institution, education[j].institution >>),
                  OverlapText(education[i], education[j]), NoTxt, 60000) >>
        ELSE << >>)
       \o EducationOverlapIssues(education, i, j + 1, clock)

validateEducationTimeline(education, clock, cfg) ==
  EducationLoop(education, clock, cfg)
  \o EducationOverlapIssues(education, 1, 2, clock)

hasWorkOverlap(work1, work2, clock) ==
  IF work1.startDate = NoDate \/ work2.startDate = NoDate THEN FALSE
  ELSE /\ getTime(work1.startDate) < EndOrNow(work2.endDate, clock)
       /\ getTime(work2.startDate) < EndOrNow(work1.endDate, clock)

isValidWorkOverlap(work1, work2) ==
  LET validOverlapKeywords ==
        {"part-time", "freelance", "consultant", "contractor", "intern",
         "volunteer", "seasonal", "temporary", "project-based", "remote"}
      industryKeywords ==
        {"teaching", "education", "consulting", "research", "writing",
         "coaching", "training", "speaking", "advisory"}
      hasValidKeywords ==
        \E kw \in validOverlapKeywords :
          \/ LineIncludes(work1.position, kw) \/ LineIncludes(work2.position, kw)
          \/ LineIncludes(work1.company, kw) \/ LineIncludes(work2.company, kw)
      shortOverlap ==
        /\ work1.startDate # NoDate /\ work1.endDate # NoDate
        /\ work2.startDate # NoDate /\ work2.endDate # NoDate
        /\ LET overlapStart == Max(getTime(work1.startDate), getTime(work2.startDate))
               overlapEnd   == Min(getTime(work1.endDate), getTime(work2.endDate))
           IN  (overlapEnd - overlapStart) * 100 < 3 * MonthHours
      hasDifferentIndustries ==
        \E kw \in industryKeywords :
          LineIncludes(work1.position, kw) # LineIncludes(work2.position, kw)
  IN  hasValidKeywords \/ shortOverlap \/ hasDifferentIndustries

\* a loop body that reports nothing
NoWorkExperienceIssues(experience, clock, cfg) == << >>

\* the body of the loop over the experiences of validateWorkTimeline
WorkExperienceIssues(experience, clock, cfg) ==
  LET bothDates ==
        /\ experience.startDate # NoDate /\ experience.endDate # NoDate
        /\ ~experience.isOngoing
      \* durationDays, in hours
      duration24 ==
        getTime(experience.endDate) - getTime(experience.startDate)
      ending ==
        IF experience.endDate # NoDate /\ ~experience.isOngoing
        THEN IF MonthsMoreThan(clock, experience.endDate, cfg.maxFutureWorkMonths)
             THEN << ValidationIssue("critical", "work",
                       Txt("work_end_far", << experience.endDate >>,
                           << cfg.maxFutureWorkMonths >>, << >>),
                       toLocaleDateString(experience.endDate),
                       Txt("fix_year_or_ongoing", << >>,
                           << experience.endDate.y - 1 >>, << >>),
                       90000) >>
             ELSE IF MonthsMoreThan(clock, experience.endDate, 1)
             THEN << ValidationIssue("warning", "work",
                       Txt("work_end_future", << experience.endDate >>,
                           << CeilMonths(clock, experience.endDate) >>, << >>),
                       toLocaleDateString(experience.endDate), NoTxt, 70000) >>
             ELSE << >>
        ELSE << >>
      start ==
        IF /\ experience.startDate # NoDate
           /\ MonthsMoreThan(clock, experience.startDate, cfg.maxFutureWorkMonths)
        THEN << ValidationIssue("critical", "work",
                  Txt("work_start_far", << experience.startDate >>,
                      << cfg.maxFutureWorkMonths >>, << >>),
                  toLocaleDateString(experience.startDate),
                  Txt("fix_verify_or_year", << >>,
                      << experience.startDate.y - 1 >>, << >>),
                  85000) >>
        ELSE << >>
      order ==
        IF bothDates /\ getTime(experience.startDate) >= getTime(experience.endDate)
        THEN << ValidationIssue("critical", "work",
                  Txt("work_order", << experience.startDate, experience.endDate >>,
                      << >>, << experience.company >>),
                  DateSpan(experience.startDate, experience.endDate),
                  Lit("fix_order"), 95000) >>
        ELSE << >>
      duration ==
        IF bothDates
        THEN IF duration24 < 24
             THEN << ValidationIssue("critical", "work",
                       Txt("work_less_than_day", << >>, << >>,
                           << experience.company >>),
                       DateSpan(experience.startDate, experience.endDate),
                       Lit("fix_verify"), 90000) >>
             ELSE IF duration24 < 7 * 24
             THEN << ValidationIssue("warning", "work",
                       Txt("work_very_short", << >>,
                           << CeilDiv(duration24, 24) >>,
                           << experience.company >>),
                       DateSpan(experience.startDate, experience.endDate),
                       NoTxt, 70000) >>
             ELSE << >>
        ELSE << >>
      ongoing ==
        IF /\ experience.isOngoing /\ experience.startDate # NoDate
           /\ YearsMoreThan(experience.startDate, clock, 15)
        THEN << ValidationIssue("suggestion", "work",
                  Txt("work_ongoing_long", << >>,
                      << CeilYears(experience.startDate, clock) >>,
                      << experience.company >>),
                  toLocaleDateString(experience.startDate), NoTxt, 60000) >>
        ELSE << >>
  IN  ending \o start \o order \o duration \o ongoing

RECURSIVE WorkLoop(_, _, _)
\* the loop over the experiences
WorkLoop(work, clock, cfg) ==
  IF Len(work) = 0 THEN << >>
  ELSE WorkExperienceIssues(work[1], clock, cfg)
       \o WorkLoop(Tail(work), clock, cfg)

\* the comparator of sortedWork: 0 when a start date is missing
CompareStart(a, b) ==
  IF a.startDate = NoDate \/ b.startDate = NoDate THEN 0
  ELSE getTime(a.startDate) - getTime(b.startDate)

RECURSIVE RunLength(_, _, _)
\* length of the run that starts the array (idx is the next element)
RunLength(a, idx, isDescending) ==
  IF idx > Len(a) THEN Len(a)
  ELSE LET order == CompareStart(a[idx], a[idx - 1])
       IN  IF (isDescending /\ order >= 0) \/ (~isDescending /\ order < 0)
           THEN idx - 1
           ELSE RunLength(a, idx + 1, isDescending)

Reverse(a) == [k \in 1..Len(a) |-> a[Len(a) + 1 - k]]

RECURSIVE InsertionPoint(_, _, _, _)
\* binary search of the place of pivot among a[left + 1 .. right]
InsertionPoint(a, pivot, left, right) ==
  IF left >= right THEN left
  ELSE LET mid == left + ((right - left) \div 2)
       IN  IF CompareStart(pivot, a[mid + 1]) < 0
           THEN InsertionPoint(a, pivot, left, mid)
           ELSE InsertionPoint(a, pivot, mid + 1, right)

RECURSIVE BinaryInsertionSort(_, _)
\* a[1 .. start - 1] is sorted; the elements from start on are inserted
BinaryInsertionSort(a, start) ==
  IF start > Len(a) THEN a
  ELSE LET left == InsertionPoint(a, a[start], 0, start - 1)
       IN  BinaryInsertionSort(
             SubSeq(a, 1, left) \o << a[start] >> \o SubSeq(a, left + 1, start - 1)
               \o SubSeq(a, start + 1, Len(a)),
             start + 1)

\* [...work].sort(comparator) as the engine's runtime sorts a short array:
\* the leading run is found (and reversed when strictly descending), the
\* remaining elements are inserted by binary search
SortWorkByStart(work) ==
  IF Len(work) < 2 THEN work
  ELSE LET isDescending == CompareStart(work[2], work[1]) < 0
           run == RunLength(work, 3, isDescending)
           made == IF isDescending
                   THEN Reverse(SubSeq(work, 1, run)) \o SubSeq(work, run + 1, Len(work))
                   ELSE work
       IN  BinaryInsertionSort(made, run + 1)

RECURSIVE WorkOverlapIssues(_, _, _, _)
\* the inner loop over j > i
WorkOverlapIssues(sortedWork, i, j, clock) ==
  IF j > Len(sortedWork) THEN << >>
  ELSE (IF /\ hasWorkOverlap(sortedWork[i], sortedWork[j], clock)
           /\ ~isValidWorkOverlap(sortedWork[i], sortedWork[j])
        THEN << ValidationIssue("warning", "work",
                  Txt("work_overlap", << >>, << >>,
                      << sortedWork[i].company, sortedWork[j].company >>),
                  OverlapText(sortedWork[i], sortedWork[j]), NoTxt, 70000) >>
        ELSE << >>)
       \o WorkOverlapIssues(sortedWork, i, j + 1, clock)

WorkGapIssues(sortedWork, i) ==
  IF i < Len(sortedWork)
  THEN LET currentWork == sortedWork[i]
           nextWork    == sortedWork[i + 1]
       IN  IF /\ currentWork.endDate # NoDate /\ nextWork.startDate # NoDate
              /\ ~currentWork.isOngoing
              /\ MonthsMoreThan(currentWork.endDate, nextWork.startDate, 12)
           THEN << ValidationIssue("suggestion", "work",
                     Txt("work_gap", << >>,
                         << CeilMonths(currentWork.endDate, nextWork.startDate) >>,
                         << currentWork.company, nextWork.company >>),
                     Txt("gap_span",
                         << currentWork.endDate, nextWork.startDate >>,
                         << >>, << >>),
                     NoTxt, 50000) >>
           ELSE << >>
  ELSE << >>

RECURSIVE SortedWorkLoop(_, _, _)
\* the outer loop over the sorted experiences
SortedWorkLoop(sortedWork, i, clock) ==
  IF i > Len(sortedWork) THEN << >>
  ELSE WorkOverlapIssues(sortedWork, i, i + 1, clock)
       \o WorkGapIssues(sortedWork, i)
       \o SortedWorkLoop(sortedWork, i + 1, clock)

validateWorkTimeline(work, clock, cfg) ==
  WorkLoop(work, clock, cfg)
  \o SortedWorkLoop(SortWorkByStart(work), 1, clock)

(***************************************************************************)
(* General rules (applyValidationRules) and severity reclassification.     *)
(***************************************************************************)
\* [p.startDate, p.endDate].filter(Boolean)
PeriodDates(p) ==
  (IF p.startDate # NoDate THEN << p.startDate >> ELSE << >>)
  \o (IF p.endDate # NoDate THEN << p.endDate >> ELSE << >>)

RECURSIVE DatesOf(_)
DatesOf(periods) ==
  IF Len(periods) = 0 THEN << >>
  ELSE PeriodDates(periods[1]) \o DatesOf(Tail(periods))

\* the allDates array of the rules
AllDates(context) ==
  DatesOf(context.educationPeriods) \o DatesOf(context.workExperience)

\* Array.prototype.find on dates, NoDate when there is none
FindDate(dates, P(_)) ==
  IF \E k \in 1..Len(dates) : P(dates[k])
  THEN dates[CHOOSE k \in 1..Len(dates) :
               P(dates[k]) /\ \A j \in 1..(k - 1) : ~P(dates[j])]
  ELSE NoDate

\* Date.prototype.setFullYear(getFullYear() + n)
AddYears(date, n) ==
  IF date.m = 2 /\ date.d = 29 /\ ~IsLeap(date.y + n)
  THEN At(MkDate(date.y + n, 3, 1), date.h)
  ELSE At(MkDate(date.y + n, date.m, date.d), date.h)

findAncientDate(context) ==
  FindDate(AllDates(context), LAMBDA date : date.y < 1980)

\* futureLimit is taken from the clock (new Date()), not from
\* context.currentDate
findImpossibleFutureDate(context, clock) ==
  FindDate(AllDates(context),
           LAMBDA date : getTime(date) > getTime(AddYears(clock, 10)))

WithStart(periods) == SelectSeq(periods, LAMBDA w : w.startDate # NoDate)

\* work with a start date, sorted by start date
SortedByStart(periods) ==
  Vals(SortByKey([k \in 1..Len(WithStart(periods)) |->
                    [key |-> getTime(WithStart(periods)[k].startDate),
                     val |-> WithStart(periods)[k]]]))

CareerGap(context) ==
  LET sortedWork == SortedByStart(context.workExperience)
  IN  /\ Len(context.workExperience) >= 2
      /\ \E i \in 2..Len(sortedWork) :
           /\ sortedWork[i - 1].endDate # NoDate
           /\ YearsMoreThan(sortedWork[i - 1].endDate, sortedWork[i].startDate, 2)

\* education that has ended, the latest end first
FinishedByEndDescending(educationPeriods) ==
  LET finished == SelectSeq(educationPeriods,
                    LAMBDA e : e.endDate # NoDate /\ ~e.isOngoing)
  IN  Vals(SortByKey([k \in 1..Len(finished) |->
                        [key |-> 0 - getTime(finished[k].endDate),
                         val |-> finished[k]]]))

WorkBeforeEducationEnds(context) ==
  LET byEndDescending == FinishedByEndDescending(context.educationPeriods)
      sortedWork == SortedByStart(context.workExperience)
  IN  /\ Len(byEndDescending) > 0 /\ Len(sortedWork) > 0
      /\ getTime(sortedWork[1].startDate) < getTime(byEndDescending[1].endDate)

\* the rules of getValidationRules, in their order
RuleNames ==
  << "ancient-dates", "impossible-future-dates", "career-progression",
     "education-work-consistency" >>

RuleCategory(name) == IF name = "career-progression" THEN "work" ELSE "general"

RuleSeverity(name) ==
  CASE name = "ancient-dates" -> "warning"
    [] name = "impossible-future-dates" -> "critical"
    [] name = "career-progression" -> "suggestion"
    [] name = "education-work-consistency" -> "warning"

RuleCondition(name, context, clock) ==
  CASE name = "ancient-dates" -> findAncientDate(context) # NoDate
    [] name = "impossible-future-dates" ->
         findImpossibleFutureDate(context, clock) # NoDate
    [] name = "career-progression" -> CareerGap(context)
    [] name = "education-work-consistency" -> WorkBeforeEducationEnds(context)

RuleMessage(name, context, clock) ==
  CASE name = "ancient-dates" ->
         Txt("rule_ancient", << >>, << findAncientDate(context).y >>, << >>)
    [] name = "impossible-future-dates" ->
         Txt("rule_impossible_future", << >>,
             << findImpossibleFutureDate(context, clock).y >>, << >>)
    [] name = "career-progression" -> Lit("rule_career_gap")
    [] name = "education-work-consistency" -> Lit("rule_work_before_education")

RuleSuggestion(name, context, clock) ==
  CASE name = "ancient-dates" ->
         Txt("fix_consider_year", << >>,
             << findAncientDate(context).y + 20 >>, << >>)
    [] name = "impossible-future-dates" ->
         Txt("fix_typo_year", << >>,
             << findImpossibleFutureDate(context, clock).y - 10 >>, << >>)
    [] name = "career-progression" -> Lit("fix_explain_gaps")
    [] name = "education-work-consistency" -> Lit("fix_check_part_time")

\* x?.endDate || x?.startDate of the first period, as a locale string
FirstPeriodDate(periods) ==
  IF Len(periods) = 0 THEN Lit("Unknown")
  ELSE IF periods[1].endDate # NoDate THEN toLocaleDateString(periods[1].endDate)
  ELSE IF periods[1].startDate # NoDate
       THEN toLocaleDateString(periods[1].startDate)
  ELSE Lit("Unknown")

extractRelevantDate(context, name) ==
  CASE RuleCategory(name) = "education" -> FirstPeriodDate(context.educationPeriods)
    [] RuleCategory(name) = "work" -> FirstPeriodDate(context.workExperience)
    [] OTHER -> Lit("Multiple dates")

\* p.confidence > 0.8
HasGoodData(p) == DLess(Double(80000), p.confidence)

calculateRuleConfidence(name, context) ==
  LET hasGoodEducationData ==
        \E k \in 1..Len(context.educationPeriods) :
          HasGoodData(context.educationPeriods[k])
      hasGoodWorkData ==
        \E k \in 1..Len(context.workExperience) :
          HasGoodData(context.workExperience[k])
  IN  Min(FAdd(70000,
               << IF RuleCategory(name) = "education" /\ hasGoodEducationData
                  THEN 10000 ELSE 0,
                  IF RuleCategory(name) = "work" /\ hasGoodWorkData
                  THEN 10000 ELSE 0,
                  IF context.config.strictMode THEN 10000 ELSE 0 >>),
          100000)

RECURSIVE RuleLoop(_, _, _)
RuleLoop(k, context, clock) ==
  IF k > Len(RuleNames) THEN << >>
  ELSE (IF RuleCondition(RuleNames[k], context, clock)
        THEN << ValidationIssue(RuleSeverity(RuleNames[k]),
                  RuleCategory(RuleNames[k]),
                  RuleMessage(RuleNames[k], context, clock),
                  extractRelevantDate(context, RuleNames[k]),
                  RuleSuggestion(RuleNames[k], context, clock),
                  calculateRuleConfidence(RuleNames[k], context)) >>
        ELSE << >>)
       \o RuleLoop(k + 1, context, clock)

applyValidationRules(context, clock) == RuleLoop(1, context, clock)

ValidationWarning(category, message, context) ==
  [category |-> category, message |-> message, context |-> context]

\* the issue is converted into a warning by categorizeIssuesBySeverity
IsLowConfidenceCritical(issue, cfg) ==
  issue.confidence < cfg.confidenceThreshold /\ issue.type = "critical"

categorizeIssuesBySeverity(issues, cfg) ==
  LET low == SelectSeq(issues, LAMBDA issue : IsLowConfidenceCritical(issue, cfg))
  IN  [issues |->
         SelectSeq(issues, LAMBDA issue : ~IsLowConfidenceCritical(issue, cfg)),
       convertedWarnings |->
         [k \in 1..Len(low) |->
            ValidationWarning(low[k].category, low[k].message,
                              low[k].detectedDate)]]

\* the warning is pushed only if (warningMessage): not for undefined and
\* not for the empty string, which are both NoTxt
createEmptyValidationResult(warningMessage) ==
  [isValid |-> TRUE, issues |-> << >>,
   warnings |->
     IF warningMessage = NoTxt THEN << >>
     ELSE << ValidationWarning("general", warningMessage,
                               Lit("System error during validation")) >>,
   suggestions |-> << >>]

(***************************************************************************)
(* Typo detector (DateTypoDetector).  currentYear is the year of the       *)
(* clock: the detector is constructed in the year of the call.             *)
(***************************************************************************)
DateSuggestion(originalDate, suggestedDate, reason, confidence) ==
  [originalDate |-> originalDate, suggestedDate |-> suggestedDate,
   reason |-> reason, confidence |-> confidence]

\* Number.prototype.toString() of a year
YearText(year) == Txt("year", << >>, << year >>, << >>)

RECURSIVE Concat(_)
\* the lists of a list, appended in order
Concat(lists) ==
  IF Len(lists) = 0 THEN << >> ELSE lists[1] \o Concat(Tail(lists))

Abs(x) == IF x < 0 THEN 0 - x ELSE x

TextIncludesAny(lines, kws) ==
  \E k \in 1..Len(lines) : LineIncludesAny(lines[k], kws)

\* the context string is `${contextType}: ${originalText}`
isEducationContext(contextType, originalText) ==
  \/ contextType = "education"
  \/ TextIncludesAny(originalText,
       {"university", "college", "school", "degree", "bachelor", "master",
        "phd", "doctorate", "diploma", "certificate", "graduation",
        "graduated", "education", "academic", "student", "gpa", "major",
        "minor"})

isWorkContext(contextType, originalText) ==
  \/ contextType = "work"
  \/ TextIncludesAny(originalText,
       {"company", "corporation", "inc", "ltd", "llc", "work", "job",
        "position", "role", "employment", "experience", "career",
        "professional", "intern", "internship", "volunteer", "manager",
        "developer", "engineer", "analyst", "consultant", "director"})

isReasonableYear(year, currentYear) == year >= 1970 /\ year <= currentYear + 5

isCommonTypoPattern(originalYear, suggestedYear) ==
  Abs(originalYear - suggestedYear) \in {10, 1, 2}

fitsEducationTimeline(year, currentYear) ==
  year >= currentYear - 15 /\ year <= currentYear + 4

fitsWorkTimeline(year, currentYear) ==
  year >= currentYear - 10 /\ year <= currentYear

\* the offsets of the entry are read by nobody and are left out
createExtractedDateFromDate(date, originalText, contextType) ==
  [text |-> YearText(date.y), normalized |-> date,
   contextType |-> contextType, originalText |-> originalText]

RECURSIVE PeriodEntries(_, _)
PeriodEntries(periods, contextType) ==
  IF Len(periods) = 0 THEN << >>
  ELSE [k \in 1..Len(PeriodDates(periods[1])) |->
          createExtractedDateFromDate(PeriodDates(periods[1])[k],
                                      periods[1].originalText, contextType)]
       \o PeriodEntries(Tail(periods), contextType)

extractAllDatesFromContext(context) ==
  PeriodEntries(context.educationPeriods, "education")
  \o PeriodEntries(context.workExperience, "work")

calculateTypoConfidence(originalYear, suggestedYear, extractedDate, currentYear) ==
  Min(FAdd(50000,
           << IF Abs(suggestedYear - currentYear)
                   < Abs(originalYear - currentYear)
              THEN 20000 ELSE 0,
              IF originalYear > currentYear + 5 THEN 20000 ELSE 0,
              IF /\ isEducationContext(extractedDate.contextType,
                                       extractedDate.originalText)
                 /\ suggestedYear >= currentYear - 10
                 /\ suggestedYear <= currentYear + 4
              THEN 10000 ELSE 0,
              IF /\ isWorkContext(extractedDate.contextType,
                                  extractedDate.originalText)
                 /\ suggestedYear >= currentYear - 5
                 /\ suggestedYear <= currentYear
              THEN 10000 ELSE 0,
              IF isCommonTypoPattern(originalYear, suggestedYear)
              THEN 15000 ELSE 0 >>),
      100000)

calculateTranspositionConfidence(originalYear, transposedYear, currentYear) ==
  Min(FAdd(40000,
           << IF 2 * Abs(transposedYear - currentYear)
                   < Abs(originalYear - currentYear)
              THEN 30000 ELSE 0,
              IF originalYear > currentYear + 10 THEN 20000 ELSE 0 >>),
      100000)

calculateOffByOneConfidence(originalYear, candidateYear, extractedDate, currentYear) ==
  Min(FAdd(30000,
           << IF /\ isEducationContext(extractedDate.contextType,
                                       extractedDate.originalText)
                 /\ fitsEducationTimeline(candidateYear, currentYear)
              THEN 20000 ELSE 0,
              IF /\ isWorkContext(extractedDate.contextType,
                                  extractedDate.originalText)
                 /\ fitsWorkTimeline(candidateYear, currentYear)
              THEN 20000 ELSE 0,
              IF originalYear > currentYear + 2 THEN 20000 ELSE 0 >>),
      100000)

detectYearTypos(year, extractedDate, currentYear) ==
  LET likelyCandidates == << currentYear, currentYear - 1, currentYear - 2 >>
      made == [k \in 1..3 |->
                 DateSuggestion(extractedDate.text, YearText(likelyCandidates[k]),
                   Txt("typo_far_future", << >>, << year, likelyCandidates[k] >>,
                       << >>),
                   calculateTypoConfidence(year, likelyCandidates[k],
                                           extractedDate, currentYear))]
  IN  IF year - currentYear > 2
      THEN SelectSeq(made, LAMBDA sg : sg.confidence > 50000)
      ELSE << >>

\* monthsDifference is taken from the clock (new Date()), not from
\* context.currentDate
detectFutureDateTypos(date, extractedDate, context, currentYear, clock) ==
  LET maxReasonableFuture ==
        IF isEducationContext(extractedDate.contextType, extractedDate.originalText)
        THEN context.config.maxFutureEducationYears * 12
        ELSE IF isWorkContext(extractedDate.contextType, extractedDate.originalText)
        THEN context.config.maxFutureWorkMonths
        ELSE 12
      suggestedYear == date.y - 10
  IN  IF /\ MonthsMoreThan(clock, date, 60)
         /\ MonthsMoreThan(clock, date, maxReasonableFuture)
      THEN (IF suggestedYear >= 1990 /\ suggestedYear <= currentYear
            THEN << DateSuggestion(extractedDate.text, YearText(suggestedYear),
                      Txt("typo_minus_ten", << >>, << date.y, suggestedYear >>,
                          << >>),
                      80000) >>
            ELSE << >>)
           \o << DateSuggestion(extractedDate.text, YearText(currentYear),
                   Txt("typo_unrealistic", << >>, << date.y, currentYear >>,
                       << >>),
                   60000) >>
      ELSE << >>

\* the year with its digits at positions i and i+1 (from 0) swapped
Transposed(year, i) ==
  LET ds == << year \div 1000, (year \div 100) % 10, (year \div 10) % 10,
               year % 10 >>
      sw == [k \in 1..4 |-> IF k = i + 1 THEN ds[i + 2]
                            ELSE IF k = i + 2 THEN ds[i + 1] ELSE ds[k]]
  IN  sw[1] * 1000 + sw[2] * 100 + sw[3] * 10 + sw[4]

detectTranspositionErrors(year, extractedDate, currentYear) ==
  LET One(i) ==
        LET transposedYear == Transposed(year, i)
            confidence ==
              calculateTranspositionConfidence(year, transposedYear, currentYear)
        IN  IF /\ isReasonableYear(transposedYear, currentYear)
               /\ Abs(transposedYear - currentYear) < Abs(year - currentYear)
               /\ confidence > 40000
            THEN << DateSuggestion(extractedDate.text, YearText(transposedYear),
                      Txt("typo_transposition", << >>,
                          << year, transposedYear >>, << >>),
                      confidence) >>
            ELSE << >>
  IN  IF year < 1000 \/ year > 9999 THEN << >>
      ELSE One(0) \o One(1) \o One(2)

detectOffByOneErrors(year, extractedDate, currentYear) ==
  LET One(candidateYear) ==
        LET confidence ==
              calculateOffByOneConfidence(year, candidateYear, extractedDate,
                                          currentYear)
        IN  IF isReasonableYear(candidateYear, currentYear) /\ confidence > 30000
            THEN << DateSuggestion(extractedDate.text, YearText(candidateYear),
                      Txt(IF candidateYear > year THEN "typo_one_year_later"
                          ELSE "typo_one_year_earlier",
                          << >>, << candidateYear >>, << >>),
                      confidence) >>
            ELSE << >>
  IN  One(year - 1) \o One(year + 1)

analyzeForTypos(extractedDate, context, currentYear, clock) ==
  detectYearTypos(extractedDate.normalized.y, extractedDate, currentYear)
  \o detectFutureDateTypos(extractedDate.normalized, extractedDate, context,
                           currentYear, clock)
  \o detectTranspositionErrors(extractedDate.normalized.y, extractedDate,
                               currentYear)
  \o detectOffByOneErrors(extractedDate.normalized.y, extractedDate, currentYear)

\* detectTypos of a detector whose currentYear is the year it was
\* constructed in
detectTypos(context, currentYear, clock) ==
  LET allDates == extractAllDatesFromContext(context)
  IN  SelectSeq(Concat([k \in 1..Len(allDates) |->
                          analyzeForTypos(allDates[k], context, currentYear,
                                          clock)]),
                LAMBDA sg : sg.confidence >= context.config.confidenceThreshold)

(***************************************************************************)
(* Suggestion generator (DateSuggestionGenerator).                         *)
(***************************************************************************)
Digits(v) == IF v < 10 THEN 1 ELSE IF v < 100 THEN 2 ELSE IF v < 1000 THEN 3 ELSE 4

Pow10(n) == 10 ^ n

\* the number token is, ends with, starts with the decimal text of v
NumIs(tok, v) == tok.t = "num" /\ tok.len = Digits(v) /\ tok.v = v
NumEndsWith(tok, v) ==
  tok.t = "num" /\ tok.len >= Digits(v) /\ tok.v % Pow10(Digits(v)) = v
NumStartsWith(tok, v) ==
  /\ tok.t = "num" /\ tok.len >= Digits(v)
  /\ tok.v \div Pow10(tok.len - Digits(v)) = v

\* "M/D/YYYY" is written at tokens i..i+4 of the line; a side that the
\* string continues on must match the token exactly
DateTextAt(line, i, date, exactStart, exactEnd) ==
  /\ i + 4 <= Len(line)
  /\ IF exactStart THEN NumIs(line[i], date.m) ELSE NumEndsWith(line[i], date.m)
  /\ line[i + 1].t = "slash"
  /\ NumIs(line[i + 2], date.d)
  /\ line[i + 3].t = "slash"
  /\ IF exactEnd THEN NumIs(line[i + 4], date.y)
     ELSE NumStartsWith(line[i + 4], date.y)

\* originalText.includes(str) for the strings an issue carries as its
\* detectedDate; the words of the other strings ("overlaps with", "to",
\* "Unknown", "Multiple dates") are written with capitals or between dates
\* and are matched by their kind
TextIncludes(lines, str) ==
  CASE str.k = "date" ->
         \E k \in 1..Len(lines) : \E i \in 1..Len(lines[k]) :
           DateTextAt(lines[k], i, str.d[1], FALSE, FALSE)
    [] str.k = "span" ->
         \E k \in 1..Len(lines) : \E i \in 1..Len(lines[k]) :
           /\ DateTextAt(lines[k], i, str.d[1], FALSE, TRUE)
           /\ i + 5 <= Len(lines[k]) /\ lines[k][i + 5].t = "dash"
           /\ DateTextAt(lines[k], i + 6, str.d[2], TRUE, FALSE)
    [] OTHER -> FALSE

IsRelated(period, issue) ==
  \/ TextIncludes(period.originalText, issue.detectedDate)
  \/ period.startDate # NoDate
       /\ toLocaleDateString(period.startDate) = issue.detectedDate
  \/ period.endDate # NoDate
       /\ toLocaleDateString(period.endDate) = issue.detectedDate

\* Array.prototype.find(...) || null
FindRelated(issue, periods) ==
  IF \E k \in 1..Len(periods) : IsRelated(periods[k], issue)
  THEN periods[CHOOSE k \in 1..Len(periods) :
                 /\ IsRelated(periods[k], issue)
                 /\ \A j \in 1..(k - 1) : ~IsRelated(periods[j], issue)]
  ELSE NoPeriod

findRelatedEducation(issue, educationPeriods) == FindRelated(issue, educationPeriods)

findRelatedWork(issue, workExperience) == FindRelated(issue, workExperience)

\* a number written with four digits
FourDigits(n) == n >= 1000 /\ n <= 9999

\* The places of a string where digits may be written, in reading order: a
\* template writes its dates, then its numbers, then its names, except the
\* two messages that begin with the name of the company.  A place is
\* <<"d", i, 0>>, <<"n", i, 0>> or <<"w", i, t>>, token t of name i.
Places(str) ==
  LET ds == [i \in 1..Len(str.d) |-> << "d", i, 0 >>]
      ns == [i \in 1..Len(str.n) |-> << "n", i, 0 >>]
      ws == Concat([i \in 1..Len(str.w) |->
                     [t \in 1..Len(str.w[i]) |-> << "w", i, t >>]])
  IN  IF str.k \in {"work_very_short", "work_ongoing_long"}
      THEN ds \o ws \o ns
      ELSE ds \o ns \o ws

\* \b\d{4}\b matches at the place: the year of a date that is written
\* (M/D/YYYY; a missing date is written 'Unknown' or 'Present'), a number
\* of four digits, or a number of four digits in a name
IsYearPlace(str, place) ==
  CASE place[1] = "d" ->
         str.d[place[2]] # NoDate /\ FourDigits(str.d[place[2]].y)
    [] place[1] = "n" -> FourDigits(str.n[place[2]])
    [] place[1] = "w" ->
         /\ str.w[place[2]][place[3]].t = "num"
         /\ str.w[place[2]][place[3]].len = 4

\* dateString.replace(/\b\d{4}\b/, newYear.toString()): the first word of
\* four digits of the string, whatever the string is, becomes newYear (a
\* year of up to four digits)
replaceDateYear(dateString, newYear) ==
  LET places == Places(dateString)
      hits   == {k \in 1..Len(places) : IsYearPlace(dateString, places[k])}
  IN  IF hits = {} THEN dateString
      ELSE LET place == places[CHOOSE k \in hits : \A j \in hits : k <= j]
           IN  CASE place[1] = "d" ->
                      [dateString EXCEPT !.d[place[2]].y = newYear]
                 [] place[1] = "n" ->
                      [dateString EXCEPT !.n[place[2]] = newYear]
                 [] place[1] = "w" ->
                      [dateString EXCEPT
                         !.w[place[2]][place[3]] =
                           Num(newYear, Digits(newYear))]

getTypicalEducationDurations(degree) ==
  IF degree = NoLine THEN << 4 >>
  ELSE IF LineIncludesAny(degree, {"bachelor", "b.s.", "b.a."}) THEN << 4, 3, 5 >>
  ELSE IF LineIncludesAny(degree, {"master", "m.s.", "m.a.", "mba"})
       THEN << 2, 1, 3 >>
  ELSE IF LineIncludesAny(degree, {"phd", "doctorate", "ph.d."})
       THEN << 5, 4, 6, 7 >>
  ELSE IF LineIncludesAny(degree, {"certificate", "diploma"}) THEN << 1, 2 >>
  ELSE << 4 >>

getEducationType(degree) ==
  IF degree = NoLine THEN "degree"
  ELSE IF LineIncludes(degree, "bachelor") THEN "bachelor's degree"
  ELSE IF LineIncludes(degree, "master") THEN "master's degree"
  ELSE IF LineIncludesAny(degree, {"phd", "doctorate"}) THEN "doctoral degree"
  ELSE IF LineIncludes(degree, "certificate") THEN "certificate program"
  ELSE IF LineIncludes(degree, "diploma") THEN "diploma program"
  ELSE "degree program"

generateReasonableGraduationYears(education, context, currentYear) ==
  LET typicalDurations == getTypicalEducationDurations(education.degree)
      years ==
        IF education.startDate = NoDate THEN << >>
        ELSE SelectSeq([k \in 1..Len(typicalDurations) |->
                          education.startDate.y + typicalDurations[k]],
               LAMBDA y : /\ y >= currentYear - 1
                          /\ y <= currentYear
                                  + context.config.maxFutureEducationYears)
  IN  IF Len(years) = 0
      THEN << currentYear, currentYear - 1, currentYear - 2 >>
      ELSE years

generateReasonableWorkEndYears(work, currentYear) ==
  LET maxDuration ==
        IF work.startDate = NoDate THEN 0
        ELSE Max(0, Min(5, currentYear - work.startDate.y + 1))
      added ==
        SelectSeq([duration \in 1..maxDuration |-> work.startDate.y + duration],
          LAMBDA y : y <= currentYear /\ y \notin {currentYear, currentYear - 1})
      years == << currentYear, currentYear - 1 >> \o added
  IN  Vals(SortByKey([k \in 1..Len(years) |->
                        [key |-> 0 - years[k], val |-> years[k]]]))

calculateEducationSuggestionConfidence(year, education, context, currentYear) ==
  LET typicalDurations == getTypicalEducationDurations(education.degree)
  IN  Min(FAdd(50000,
               << IF /\ year >= currentYear - 1
                     /\ year <= currentYear
                                + context.config.maxFutureEducationYears
                  THEN 20000 ELSE 0,
                  IF /\ education.startDate # NoDate
                     /\ \E k \in 1..Len(typicalDurations) :
                          typicalDurations[k] = year - education.startDate.y
                  THEN 20000 ELSE 0 >>),
          100000)

calculateWorkSuggestionConfidence(year, work, currentYear) ==
  Min(FAdd(50000,
           << IF year >= currentYear - 5 /\ year <= currentYear
              THEN 20000 ELSE 0,
              IF /\ work.startDate # NoDate
                 /\ year - work.startDate.y >= 0
                 /\ year - work.startDate.y <= 10
              THEN 10000 ELSE 0 >>),
      100000)

\* -3 < (endDate - new Date()) / 30.44 days < maxFutureWorkMonths
shouldSuggestOngoing(work, context, clock) ==
  /\ work.endDate # NoDate
  /\ (getTime(work.endDate) - getTime(clock)) * 100 > (0 - 3) * MonthHours
  /\ (getTime(work.endDate) - getTime(clock)) * 100
       < context.config.maxFutureWorkMonths * MonthHours

generateDateOrderSuggestions(period, type, currentYear) ==
  LET startYear == period.startDate.y
      endYear   == period.endDate.y
      reasonableEndYear ==
        IF type = "education" THEN startYear + 4
        ELSE Min(startYear + 3, currentYear)
  IN  IF period.startDate = NoDate \/ period.endDate = NoDate THEN << >>
      ELSE << DateSuggestion(
                Txt("year_span", << >>, << startYear, endYear >>, << >>),
                Txt("year_span", << >>, << endYear, startYear >>, << >>),
                Lit("reason_swapped"), 60000) >>
           \o (IF reasonableEndYear # endYear /\ reasonableEndYear >= startYear
               THEN << DateSuggestion(YearText(endYear),
                         YearText(reasonableEndYear),
                         Txt("reason_typical_" \o type, << >>,
                             << reasonableEndYear >>, << >>),
                         50000) >>
               ELSE << >>)

generateEducationDurationSuggestions(education, context, currentYear) ==
  LET startYear == education.startDate.y
      endYear   == education.endDate.y
      typicalDurations == getTypicalEducationDurations(education.degree)
      kept == SelectSeq(typicalDurations,
                LAMBDA duration :
                  /\ duration # endYear - startYear
                  /\ startYear + duration
                       <= currentYear + context.config.maxFutureEducationYears)
  IN  IF education.startDate = NoDate \/ education.endDate = NoDate THEN << >>
      ELSE [k \in 1..Len(kept) |->
              DateSuggestion(YearText(endYear), YearText(startYear + kept[k]),
                Txt("reason_typical_duration: "
                      \o getEducationType(education.degree),
                    << >>, << kept[k] >>, << >>),
                40000)]

generateEducationSuggestions(issue, context, currentYear) ==
  LET relatedEducation == findRelatedEducation(issue, context.educationPeriods)
      years == generateReasonableGraduationYears(relatedEducation, context,
                                                 currentYear)
      graduation ==
        SelectSeq([k \in 1..Len(years) |->
                     DateSuggestion(issue.detectedDate,
                       replaceDateYear(issue.detectedDate, years[k]),
                       Txt("reason_graduation", << >>, << years[k] >>, << >>),
                       calculateEducationSuggestionConfidence(years[k],
                         relatedEducation, context, currentYear))],
          LAMBDA sg : sg.suggestedDate # sg.originalDate)
  IN  IF relatedEducation = NoPeriod THEN << >>
      ELSE (IF MsgHas(issue.message, "graduation date")
               /\ MsgHas(issue.message, "future")
            THEN graduation ELSE << >>)
           \o (IF MsgHas(issue.message, "start date")
                  /\ MsgHas(issue.message, "after")
               THEN generateDateOrderSuggestions(relatedEducation, "education",
                                                 currentYear)
               ELSE << >>)
           \o (IF MsgHas(issue.message, "unusually long")
                  \/ MsgHas(issue.message, "seems short")
               THEN generateEducationDurationSuggestions(relatedEducation,
                                                         context, currentYear)
               ELSE << >>)

generateWorkSuggestions(issue, context, currentYear, clock) ==
  LET relatedWork == findRelatedWork(issue, context.workExperience)
      years == generateReasonableWorkEndYears(relatedWork, currentYear)
      endYears ==
        SelectSeq([k \in 1..Len(years) |->
                     DateSuggestion(issue.detectedDate,
                       replaceDateYear(issue.detectedDate, years[k]),
                       Txt("reason_employment_end", << >>, << years[k] >>, << >>),
                       calculateWorkSuggestionConfidence(years[k], relatedWork,
                                                         currentYear))],
          LAMBDA sg : sg.suggestedDate # sg.originalDate)
  IN  IF relatedWork = NoPeriod THEN << >>
      ELSE (IF MsgHas(issue.message, "end date")
               /\ MsgHas(issue.message, "future")
            THEN endYears
                 \o (IF shouldSuggestOngoing(relatedWork, context, clock)
                     THEN << DateSuggestion(issue.detectedDate, Lit("Present"),
                               Lit("reason_mark_present"), 70000) >>
                     ELSE << >>)
            ELSE << >>)
           \o (IF MsgHas(issue.message, "start date")
                  /\ MsgHas(issue.message, "after")
               THEN generateDateOrderSuggestions(relatedWork, "work", currentYear)
               ELSE << >>)

\* None of the three corrections applies to a string the engine builds:
\* "M/D/YYYY" ends in four digits and holds no dash between two digits.
generateDateFormatSuggestions(dateString) == << >>

generateGeneralSuggestions(issue) ==
  IF MsgHas(issue.message, "format") \/ MsgHas(issue.message, "invalid")
  THEN generateDateFormatSuggestions(issue.detectedDate)
  ELSE << >>

generateContextAwareSuggestions(issue, context, currentYear, clock) ==
  CASE issue.category = "education" ->
         generateEducationSuggestions(issue, context, currentYear)
    [] issue.category = "work" ->
         generateWorkSuggestions(issue, context, currentYear, clock)
    [] issue.category = "general" -> generateGeneralSuggestions(issue)
    [] OTHER -> << >>

generateEducationTimelineGapSuggestions(educationPeriods) ==
  LET sortedEducation == SortedByStart(educationPeriods)
      One(i) ==
        LET current == sortedEducation[i]
            next    == sortedEducation[i + 1]
        IN  IF current.endDate # NoDate
               /\ next.startDate.y - current.endDate.y > 2
            THEN << DateSuggestion(
                      Txt("year_to_year", << >>,
                          << current.endDate.y, next.startDate.y >>, << >>),
                      Lit("Consider adding missing education or adjusting dates"),
                      Txt("reason_education_gap", << >>,
                          << next.startDate.y - current.endDate.y >>, << >>),
                      30000) >>
            ELSE << >>
  IN  Concat([i \in 1..(Len(sortedEducation) - 1) |-> One(i)])

\* more than six months of overlap; a missing end date is new Date()
hasSignificantOverlap(work1, work2, clock) ==
  LET work1End == IF work1.endDate = NoDate THEN clock ELSE work1.endDate
      work2End == IF work2.endDate = NoDate THEN clock ELSE work2.endDate
  IN  /\ work1.startDate # NoDate /\ work2.startDate # NoDate
      /\ (Min(getTime(work1End), getTime(work2End))
            - Max(getTime(work1.startDate), getTime(work2.startDate))) * 100
           > 6 * MonthHours

\* new Date(date.getTime() - 24 * 60 * 60 * 1000)
DayBefore(date) == DateOf(getTime(date) - 24)

\* the empty list stands for null
generateOverlapSuggestion(work1, work2) ==
  IF work1.endDate = NoDate \/ work2.startDate = NoDate THEN << >>
  ELSE << DateSuggestion(toLocaleDateString(work1.endDate),
            toLocaleDateString(DayBefore(work2.startDate)),
            Txt("reason_avoid_overlap", << >>, << >>, << work2.company >>),
            40000) >>

generateWorkTimelineOverlapSuggestions(workExperience, clock) ==
  LET n == Len(workExperience)
      Pair(i, j) ==
        IF hasSignificantOverlap(workExperience[i], workExperience[j], clock)
        THEN generateOverlapSuggestion(workExperience[i], workExperience[j])
        ELSE << >>
      Row(i) == Concat([d \in 1..(n - i) |-> Pair(i, i + d)])
  IN  Concat([i \in 1..n |-> Row(i)])

generateTimelineSuggestions(context, clock) ==
  generateEducationTimelineGapSuggestions(context.educationPeriods)
  \o generateWorkTimelineOverlapSuggestions(context.workExperience, clock)

\* a ranking that returns the suggestions as they were collected
KeepAllSuggestions(suggestions, context) == suggestions

filterAndRankSuggestions(suggestions, context) ==
  LET IsFirst(k) ==
        \A j \in 1..(k - 1) :
          ~(/\ suggestions[j].originalDate = suggestions[k].originalDate
            /\ suggestions[j].suggestedDate = suggestions[k].suggestedDate)
      firsts == SelectSeq([k \in 1..Len(suggestions) |->
                             [keep |-> IsFirst(k), sg |-> suggestions[k]]],
                  LAMBDA x : x.keep)
      filtered == SelectSeq(firsts,
                    LAMBDA x : x.sg.confidence >= context.config.confidenceThreshold)
  IN  Vals(SortByKey([k \in 1..Len(filtered) |->
                        [key |-> 0 - filtered[k].sg.confidence,
                         val |-> filtered[k].sg]]))

\* new DateSuggestionGenerator(): the generator and its typo detector keep
\* the year they were constructed in (currentYear = new Date().getFullYear())
DateSuggestionGenerator(clock) ==
  [currentYear |-> clock.y, typoDetector |-> [currentYear |-> clock.y]]

\* generateSuggestions of the generator this, with the clock at clock
generateSuggestions(this, context, issues, clock) ==
  filterAndRankSuggestions(
    detectTypos(context, this.typoDetector.currentYear, clock)
    \o Concat([k \in 1..Len(issues) |->
                 generateContextAwareSuggestions(issues[k], context,
                                                 this.currentYear, clock)])
    \o generateTimelineSuggestions(context, clock),
    context)

(***************************************************************************)
(* Configuration manager.  Confidence thresholds are in units of 1/100000. *)
(***************************************************************************)
DEFAULT_VALIDATION_CONFIG ==
  [maxFutureEducationYears |-> 4, maxFutureWorkMonths |-> 3,
   enableTypoDetection |-> TRUE, confidenceThreshold |-> 80000,
   strictMode |-> FALSE]

\* the values an untyped caller may put into a configuration, by their typeof
JsNumber(n) == [typeof |-> "number", num |-> n]
\* NaN is of type number
JsNaN == [typeof |-> "number", nan |-> TRUE]
JsBoolean(b) == [typeof |-> "boolean", bool |-> b]
JsString(s) == [typeof |-> "string", str |-> s]
JsUndefined == [typeof |-> "undefined"]

\* a well-typed configuration as values of these kinds
JsConfig(cfg) ==
  [f \in DOMAIN cfg |->
     IF f \in {"enableTypoDetection", "strictMode"} THEN JsBoolean(cfg[f])
     ELSE JsNumber(cfg[f])]

\* a validation that accepts every configuration
validateNothing(cfg) == TRUE

\* typeof v !== 'number' || isNaN(v) || v < min || v > max
FailsRule(v, min, max) ==
  \/ v.typeof # "number"
  \/ "nan" \in DOMAIN v
  \/ v.num < min
  \/ v.num > max

\* validateConfig does not throw (confidenceThreshold in units of 1/100000)
validateConfig(cfg) ==
  /\ ~FailsRule(cfg.maxFutureEducationYears, 0, 10)
  /\ ~FailsRule(cfg.maxFutureWorkMonths, 0, 12)
  /\ ~FailsRule(cfg.confidenceThreshold, 0, 100000)
  /\ cfg.enableTypoDetection.typeof = "boolean"
  /\ cfg.strictMode.typeof = "boolean"

\* { ...this.config, ...updates }
Merge(cfg, updates) ==
  [f \in DOMAIN cfg |-> IF f \in DOMAIN updates THEN updates[f] ELSE cfg[f]]

\* the configuration after updateConfigSync(updates) with well-typed
\* updates: rolled back when the merged configuration is invalid
updateConfigSync(cfg, updates) ==
  IF validateConfig(JsConfig(Merge(cfg, updates))) THEN Merge(cfg, updates)
  ELSE cfg

\* new DateValidationConfigManager(): the configuration as it is stored,
\* isInitialized, and the calls of updateConfig, resetToDefaults, initialize
\* and reloadFromStorage that are suspended at their await of the
\* persistence manager
NewManager ==
  [config |-> JsConfig(DEFAULT_VALIDATION_CONFIG), isInitialized |-> FALSE,
   saving |-> << >>]

\* { ...this.config }
getConfig(m) == m.config

(***************************************************************************)
(* The orchestrator, validateResumeDates.  The calls it makes are the      *)
(* stages, the calls on the logger and configManager.logDate.  The         *)
(* environment makes some of these calls throw: faults is the set of their *)
(* sites.  A call that fails throws before it has written anything.        *)
(***************************************************************************)
Stages ==
  {"parseEducationDates", "parseWorkExperience", "getConfig",
   "validateEducationTimeline", "validateWorkTimeline", "applyValidationRules",
   "generateSuggestions", "categorizeIssuesBySeverity",
   "logEdgeCasesFromResults"}

\* a monitored stage: its method, the name it is monitored under, the
\* category and operations of its log entries, and the sites of the calls
\* made around it
MonitoredStage(stage, name, category, completed, failed, start, end,
               endFailed) ==
  [stage |-> stage, name |-> name, category |-> category,
   completed |-> completed, failed |-> failed, start |-> start, end |-> end,
   endFailed |-> endFailed]

EducationParsing ==
  MonitoredStage("parseEducationDates", "parse_education_dates", "parsing",
                 "education_parsing_completed", "education_parsing_failed",
                 "start_parse_education_dates", "end_parse_education_dates",
                 "end_parse_education_dates_failed")

WorkParsing ==
  MonitoredStage("parseWorkExperience", "parse_work_experience", "parsing",
                 "work_parsing_completed", "work_parsing_failed",
                 "start_parse_work_experience", "end_parse_work_experience",
                 "end_parse_work_experience_failed")

EducationValidation ==
  MonitoredStage("validateEducationTimeline", "validate_education_timeline",
                 "validation", "education_validation_completed",
                 "education_validation_failed",
                 "start_validate_education_timeline",
                 "end_validate_education_timeline",
                 "end_validate_education_timeline_failed")

WorkValidation ==
  MonitoredStage("validateWorkTimeline", "validate_work_timeline",
                 "validation", "work_validation_completed",
                 "work_validation_failed", "start_validate_work_timeline",
                 "end_validate_work_timeline",
                 "end_validate_work_timeline_failed")

RuleValidation ==
  MonitoredStage("applyValidationRules", "apply_validation_rules",
                 "validation", "rule_validation_completed",
                 "rule_validation_failed", "start_apply_validation_rules",
                 "end_apply_validation_rules",
                 "end_apply_validation_rules_failed")

SuggestionGeneration ==
  MonitoredStage("generateSuggestions", "generate_suggestions", "validation",
                 "suggestion_generation_completed",
                 "suggestion_generation_failed", "start_generate_suggestions",
                 "end_generate_suggestions",
                 "end_generate_suggestions_failed")

MonitoredStages ==
  {EducationParsing, WorkParsing, EducationValidation, WorkValidation,
   RuleValidation, SuggestionGeneration}

\* the sites of the calls on the logger and of configManager.logDate
LoggerSites ==
  {"start_validate_resume_dates", "logDate_validation_started",
   "invalid_input", "empty_input", "validation_started", "dates_extracted",
   "date_extraction_logging_failed", "end_generate_suggestions_skipped",
   "suggestion_generation_skipped", "end_validate_resume_dates",
   "logDate_validation_completed", "logValidationResults", "logEdgeCase",
   "edge_case_logging_failed", "end_validate_resume_dates_failed",
   "validation_critical_error", "logDate_validation_failed",
   "logValidationResults_failed"}
  \cup UNION {{s.start, s.end, s.endFailed, s.completed, s.failed} :
                s \in MonitoredStages}

Sites == Stages \cup LoggerSites

\* one call: its site, the method called ("stage" for a stage), and for a
\* call on the logger the level, category and operation of its entry and the
\* success property of its data ("none" when the data has none)
SiteCall(site, fn, level, category, operation, success) ==
  [site |-> site, fn |-> fn, level |-> level, category |-> category,
   operation |-> operation, success |-> success]

\* this.<stage>(...)
StageCall(stage) == SiteCall(stage, "stage", "", "", stage, "none")

\* logger.log(level, category, operation, data)
LoggerCall(level, category, operation) ==
  SiteCall(operation, "log", level, category, operation, "none")

\* logger.startPerformanceMonitoring(name)
StartCall(site, name) == SiteCall(site, "start", "", "", name, "none")

\* logger.endPerformanceMonitoring(id, { ..., success }) of the operation
\* started last ("end") or of validate_resume_dates ("endOuter")
EndCall(site, fn, name, success) == SiteCall(site, fn, "", "", name, success)

\* configManager.logDate(...): written to the console only
LogDateCall(site) == SiteCall(site, "logDate", "", "", "", "none")

\* logger.logValidationResults(..., success)
ResultsCall(site, success) ==
  SiteCall(site, "results", "", "", "validation_completed", success)

\* logger.logEdgeCase(caseType, ...)
EdgeCaseCall(caseType) ==
  SiteCall("logEdgeCase", "edge", "", "", caseType, "none")

\* a call of the block fails
Fails(block, faults) == \E k \in 1..Len(block) : block[k].site \in faults

\* the calls of a block that are entered: all of them, or those up to the
\* first one that fails
Reached(block, faults) ==
  IF Fails(block, faults)
  THEN SubSeq(block, 1,
              CHOOSE k \in 1..Len(block) :
                /\ block[k].site \in faults
                /\ \A j \in 1..(k - 1) : block[j].site \notin faults)
  ELSE block

\* a block that no try statement of its own protects
NoTry(body, handler, faults) ==
  [calls |-> Reached(body, faults), caught |-> FALSE,
   throws |-> Fails(body, faults)]

\* try { body } catch { handler }: the calls entered, whether the catch
\* clause was entered, and whether a failure leaves the statement
TryCatch(body, handler, faults) ==
  [calls |-> IF Fails(body, faults)
             THEN Reached(body, faults) \o Reached(handler, faults)
             ELSE body,
   caught |-> Fails(body, faults),
   throws |-> Fails(body, faults) /\ Fails(handler, faults)]

\* the monitoring of a stage is started, then try { body } catch { the end
\* of the monitoring and the error are logged }
Monitored(s, body, faults) ==
  IF s.start \in faults
  THEN [calls |-> << StartCall(s.start, s.name) >>, caught |-> FALSE,
        throws |-> TRUE]
  ELSE Bind(TryCatch(body,
                     << EndCall(s.endFailed, "end", s.name, "false"),
                        LoggerCall("error", s.category, s.failed) >>,
                     faults),
         LAMBDA try :
           [try EXCEPT !.calls = << StartCall(s.start, s.name) >> \o @])

\* the try block of a monitored stage: the stage, the end of its monitoring
\* and the entry of its completion
StageBlock(s) ==
  << StageCall(s.stage), EndCall(s.end, "end", s.name, "true"),
     LoggerCall("info", s.category, s.completed) >>

\* the stage has returned: its monitoring was started and it did not fail
Ran(s, faults) == s.start \notin faults /\ s.stage \notin faults

\* !resumeText || typeof resumeText !== 'string'
IsInvalidInput(resumeText) == resumeText.kind \in {"null", "number", "empty"}

\* a test for blank input that accepts every text
NeverBlank(resumeText) == FALSE

\* resumeText.trim().length === 0
IsBlankInput(resumeText) == resumeText.kind = "blank"

NoTrace ==
  [educationPeriods |-> << >>, workExperience |-> << >>, allIssues |-> << >>,
   invoked |-> {}, path |-> "none", thrown |-> FALSE]

SkippedWarning(category, kind, context) ==
  ValidationWarning(category, Lit(kind), Lit(context))

\* a switch that is always on
AlwaysEnabled(cfg) == TRUE

\* configManager.isTypoDetectionEnabled()
isTypoDetectionEnabled(cfg) == cfg.enableTypoDetection

ParsingStages == {"parseEducationDates", "parseWorkExperience", "getConfig"}

\* the stages a call enters after its input was accepted
PipelineStages(cfg) ==
  ParsingStages
  \cup {"validateEducationTimeline", "validateWorkTimeline",
        "applyValidationRules", "categorizeIssuesBySeverity",
        "logEdgeCasesFromResults"}
  \cup (IF isTypoDetectionEnabled(cfg) THEN {"generateSuggestions"} ELSE {})

\* the order the stages are entered in
StageOrder ==
  << "parseEducationDates", "parseWorkExperience", "getConfig",
     "validateEducationTimeline", "validateWorkTimeline",
     "applyValidationRules", "generateSuggestions",
     "categorizeIssuesBySeverity", "logEdgeCasesFromResults" >>

StageIndex(stage) ==
  CHOOSE i \in 1..Len(StageOrder) : StageOrder[i] = stage

\* a return statement that judges validity on the issues as they were before
\* the reclassification
ReclassifyJudgedBefore(allIssues, warnings, suggestions, faults, cfg) ==
  [isValid |-> \A k \in 1..Len(allIssues) : allIssues[k].type # "critical",
   issues |-> categorizeIssuesBySeverity(allIssues, cfg).issues,
   warnings |-> warnings
                \o categorizeIssuesBySeverity(allIssues, cfg).convertedWarnings,
   suggestions |-> suggestions]

\* from the reclassification to the result: when categorizeIssuesBySeverity
\* fails its catch clause takes all issues as they are
Reclassify(allIssues, warnings, suggestions, faults, cfg) ==
  Bind(IF "categorizeIssuesBySeverity" \in faults
       THEN [issues |-> allIssues, convertedWarnings |-> << >>]
       ELSE categorizeIssuesBySeverity(allIssues, cfg),
    LAMBDA categorized :
      [isValid |-> \A k \in 1..Len(categorized.issues) :
                     categorized.issues[k].type # "critical",
       issues |-> categorized.issues,
       warnings |-> warnings \o categorized.convertedWarnings,
       suggestions |-> suggestions])

\* logEdgeCasesFromResults(issues, warnings, resumeText): the edge cases of
\* the issues, each issue in turn, then those of the warnings
EdgeCaseCalls(issues, warnings) ==
  Concat([k \in 1..Len(issues) |->
            (IF issues[k].confidence < 70000
             THEN << EdgeCaseCall("ambiguous_date") >> ELSE << >>)
            \o (IF /\ MsgHas(issues[k].message, "future")
                   /\ issues[k].type = "warning"
                THEN << EdgeCaseCall("unusual_date_format") >> ELSE << >>)])
  \o Concat([k \in 1..Len(warnings) |->
               IF \/ MsgHas(warnings[k].message, "error")
                  \/ MsgHas(warnings[k].message, "skipped")
               THEN << EdgeCaseCall("unexpected_pattern") >> ELSE << >>])

\* what a call that throws leaves to its caller
Exception == [error |-> TRUE]

\* the run ends: what it returns, the calls it made, and its trace
Ends(st, path, value) ==
  [result |-> value, calls |-> st.calls,
   trace |->
     [educationPeriods |-> st.educationPeriods,
      workExperience |-> st.workExperience, allIssues |-> st.allIssues,
      invoked |-> {st.calls[k].site :
                     k \in {j \in 1..Len(st.calls) :
                              st.calls[j].fn = "stage"}},
      path |-> path, thrown |-> path = "thrown"]]

\* the run before its first call
NoCalls ==
  [calls |-> << >>, educationPeriods |-> << >>, workExperience |-> << >>,
   allIssues |-> << >>, warnings |-> << >>, suggestions |-> << >>,
   result |-> << >>]

\* the run has made these calls
Made(st, calls) == [st EXCEPT !.calls = @ \o calls]

\* validateResumeDates from one of its steps on; a failure that no catch
\* clause of a step receives goes to the catch clause around the method
\* ("catch"), a failure before the try block or inside that catch clause
\* reaches the caller
RECURSIVE Pipeline(_, _, _)
Pipeline(step, st, env) ==
  CASE step = "start" ->
         Bind(NoTry(<< StartCall("start_validate_resume_dates",
                                 "validate_resume_dates"),
                       LogDateCall("logDate_validation_started") >>,
                    << >>, env.faults),
           LAMBDA entry :
             IF entry.throws
             THEN Ends(Made(st, entry.calls), "thrown", Exception)
             ELSE Pipeline("input", Made(st, entry.calls), env))
    [] step = "input" ->
         Bind(NoTry(<< IF IsInvalidInput(env.resumeText)
                       THEN LoggerCall("error", "validation", "invalid_input")
                       ELSE IF IsBlankInput(env.resumeText)
                       THEN LoggerCall("warn", "validation", "empty_input")
                       ELSE LoggerCall("info", "validation",
                                       "validation_started") >>,
                    << >>, env.faults),
           LAMBDA checked :
             IF checked.throws
             THEN Pipeline("catch", Made(st, checked.calls), env)
             ELSE IF IsInvalidInput(env.resumeText)
             THEN Ends(Made(st, checked.calls), "invalid_input",
                       createEmptyValidationResult(Lit("invalid_input")))
             ELSE IF IsBlankInput(env.resumeText)
             THEN Ends(Made(st, checked.calls), "empty_input",
                       createEmptyValidationResult(Lit("empty_input")))
             ELSE Pipeline("parseEducationDates", Made(st, checked.calls),
                           env))
    [] step = "parseEducationDates" ->
         Bind(Monitored(EducationParsing, StageBlock(EducationParsing),
                        env.faults),
           LAMBDA parsed :
             IF parsed.throws
             THEN Pipeline("catch", Made(st, parsed.calls), env)
             ELSE Pipeline("parseWorkExperience",
                    [Made(st, parsed.calls) EXCEPT
                       !.educationPeriods =
                         IF parsed.caught THEN << >>
                         ELSE parseEducationDates(env.resumeText.lines,
                                                  env.clock)],
                    env))
    [] step = "parseWorkExperience" ->
         Bind(Monitored(WorkParsing, StageBlock(WorkParsing), env.faults),
           LAMBDA parsed :
             IF parsed.throws
             THEN Pipeline("catch", Made(st, parsed.calls), env)
             ELSE Pipeline("logAllExtractedDates",
                    [Made(st, parsed.calls) EXCEPT
                       !.workExperience =
                         IF parsed.caught THEN << >>
                         ELSE parseWorkExperience(env.resumeText.lines,
                                                  env.clock)],
                    env))
    [] step = "logAllExtractedDates" ->
         Bind(TryCatch(<< LoggerCall("debug", "validation",
                                     "dates_extracted") >>,
                       << LoggerCall("error", "validation",
                                     "date_extraction_logging_failed") >>,
                       env.faults),
           LAMBDA logged :
             IF logged.throws
             THEN Pipeline("catch", Made(st, logged.calls), env)
             ELSE Pipeline("getConfig", Made(st, logged.calls), env))
    [] step = "getConfig" ->
         IF "getConfig" \in env.faults
         THEN Ends(Made(st, << StageCall("getConfig") >>), "context_failed",
                   createEmptyValidationResult(Lit("context_failed")))
         ELSE Pipeline("validateEducationTimeline",
                       Made(st, << StageCall("getConfig") >>), env)
    [] step = "validateEducationTimeline" ->
         Bind(Monitored(EducationValidation, StageBlock(EducationValidation),
                        env.faults),
           LAMBDA validated :
             Bind([Made(st, validated.calls) EXCEPT
                     !.allIssues =
                       IF Ran(EducationValidation, env.faults)
                       THEN @ \o validateEducationTimeline(
                                   st.educationPeriods, env.clock, env.cfg)
                       ELSE @,
                     !.warnings =
                       IF validated.caught /\ ~validated.throws
                       THEN Append(@, SkippedWarning("education",
                                        "edu_validation_skipped",
                                        "System error during validation"))
                       ELSE @],
               LAMBDA next :
                 Pipeline(IF validated.throws THEN "catch"
                          ELSE "validateWorkTimeline", next, env)))
    [] step = "validateWorkTimeline" ->
         Bind(Monitored(WorkValidation, StageBlock(WorkValidation),
                        env.faults),
           LAMBDA validated :
             Bind([Made(st, validated.calls) EXCEPT
                     !.allIssues =
                       IF Ran(WorkValidation, env.faults)
                       THEN @ \o validateWorkTimeline(
                                   st.workExperience, env.clock, env.cfg)
                       ELSE @,
                     !.warnings =
                       IF validated.caught /\ ~validated.throws
                       THEN Append(@, SkippedWarning("work",
                                        "work_validation_skipped",
                                        "System error during validation"))
                       ELSE @],
               LAMBDA next :
                 Pipeline(IF validated.throws THEN "catch"
                          ELSE "applyValidationRules", next, env)))
    [] step = "applyValidationRules" ->
         Bind(Monitored(RuleValidation, StageBlock(RuleValidation),
                        env.faults),
           LAMBDA validated :
             Bind([Made(st, validated.calls) EXCEPT
                     !.allIssues =
                       IF Ran(RuleValidation, env.faults)
                       THEN @ \o applyValidationRules(
                                   [educationPeriods |-> st.educationPeriods,
                                    workExperience |-> st.workExperience,
                                    currentDate |-> env.clock,
                                    config |-> env.cfg], env.clock)
                       ELSE @,
                     !.warnings =
                       IF validated.caught /\ ~validated.throws
                       THEN Append(@, SkippedWarning("general",
                                        "rules_skipped",
                                        "System error during rule application"))
                       ELSE @],
               LAMBDA next :
                 Pipeline(IF validated.throws THEN "catch"
                          ELSE "generateSuggestions", next, env)))
    [] step = "generateSuggestions" ->
         Bind(Monitored(SuggestionGeneration,
                        IF isTypoDetectionEnabled(env.cfg)
                        THEN StageBlock(SuggestionGeneration)
                        ELSE << EndCall("end_generate_suggestions_skipped",
                                        "end", "generate_suggestions",
                                        "none"),
                                LoggerCall("info", "validation",
                                           "suggestion_generation_skipped") >>,
                        env.faults),
           LAMBDA generated :
             Bind([Made(st, generated.calls) EXCEPT
                     !.suggestions =
                       IF /\ isTypoDetectionEnabled(env.cfg)
                          /\ Ran(SuggestionGeneration, env.faults)
                       THEN generateSuggestions(env.generator,
                              [educationPeriods |-> st.educationPeriods,
                               workExperience |-> st.workExperience,
                               currentDate |-> env.clock,
                               config |-> env.cfg],
                              st.allIssues, env.clock)
                       ELSE @,
                     !.warnings =
                       IF generated.caught /\ ~generated.throws
                       THEN Append(@, SkippedWarning("general",
                                        "suggestions_skipped",
                                        "System error during suggestion generation"))
                       ELSE @],
               LAMBDA next :
                 Pipeline(IF generated.throws THEN "catch"
                          ELSE "categorizeIssuesBySeverity", next, env)))
    [] step = "categorizeIssuesBySeverity" ->
         Pipeline("logValidationResults",
                  [Made(st, << StageCall("categorizeIssuesBySeverity") >>)
                     EXCEPT !.result =
                       Reclassify(st.allIssues, st.warnings, st.suggestions,
                                  env.faults, env.cfg)],
                  env)
    [] step = "logValidationResults" ->
         Bind(NoTry(<< EndCall("end_validate_resume_dates", "endOuter",
                               "validate_resume_dates", "true"),
                       LogDateCall("logDate_validation_completed"),
                       ResultsCall("logValidationResults", "true") >>,
                    << >>, env.faults),
           LAMBDA logged :
             Pipeline(IF logged.throws THEN "catch"
                      ELSE "logEdgeCasesFromResults",
                      Made(st, logged.calls), env))
    [] step = "logEdgeCasesFromResults" ->
         Bind(TryCatch(<< StageCall("logEdgeCasesFromResults") >>
                       \o EdgeCaseCalls(st.result.issues, st.result.warnings),
                       << LoggerCall("error", "validation",
                                     "edge_case_logging_failed") >>,
                       env.faults),
           LAMBDA logged :
             IF logged.throws
             THEN Pipeline("catch", Made(st, logged.calls), env)
             ELSE Ends(Made(st, logged.calls), "completed", st.result))
    [] step = "catch" ->
         Bind(NoTry(<< EndCall("end_validate_resume_dates_failed", "endOuter",
                               "validate_resume_dates", "false"),
                       LoggerCall("error", "validation",
                                  "validation_critical_error"),
                       LogDateCall("logDate_validation_failed"),
                       ResultsCall("logValidationResults_failed", "false") >>,
                    << >>, env.faults),
           LAMBDA handled :
             IF handled.throws
             THEN Ends(Made(st, handled.calls), "thrown", Exception)
             ELSE Ends(Made(st, handled.calls), "critical_error",
                       createEmptyValidationResult(Lit("unavailable"))))

\* validateResumeDates(resumeText): the validators, the rules and the
\* suggestion generator read the clock themselves
validateResumeDates(resumeText, faults, cfg, clock, generator) ==
  Pipeline("start", NoCalls,
           [resumeText |-> resumeText, faults |-> faults, cfg |-> cfg,
            clock |-> clock, generator |-> generator])

(***************************************************************************)
(* Resume texts: the lines a text is made of.                              *)
(***************************************************************************)
Year(y) == Num(y, 4)

HeaderEducation == << W("education") >>
HeaderWork == << W("work"), W("experience") >>
LineUniversity == << W("university"), W("of"), W("technology") >>
LineAcme == << W("acme"), W("inc") >>
\* "2018 - 2022"
LineRange == << Year(2018), Dash, Year(2022) >>
\* "2022 - 2018"
LineReversed == << Year(2022), Dash, Year(2018) >>
\* "September 2018 - May 2022"
LineMonths == << Mon(9), Year(2018), Dash, Mon(5), Year(2022) >>
\* "2025/13/45 - 2026/99/99"
LineMalformed ==
  << Year(2025), Slash, Num(13, 2), Slash, Num(45, 2), Dash,
     Year(2026), Slash, Num(99, 2), Slash, Num(99, 2) >>
\* "2020 - Present"
LineOngoing == << Year(2020), Dash, W("present") >>
\* "2020 - 2020"
LineSameYear == << Year(2020), Dash, Year(2020) >>
\* "December 2035"
LineFarFuture == << Mon(12), Year(2035) >>
\* "01/15/2020"
LineFullDate == << Num(1, 2), Slash, Num(15, 2), Slash, Year(2020) >>
\* "2030 - 2034"
LineFuture == << Year(2030), Dash, Year(2034) >>
\* "1975 - 1979"
LineAncient == << Year(1975), Dash, Year(1979) >>
\* "2028 - 2032"
LineNearFuture == << Year(2028), Dash, Year(2032) >>

LineLibrary ==
  {HeaderEducation, HeaderWork, LineUniversity, LineAcme, LineRange,
   LineReversed, LineMonths, LineMalformed, LineOngoing, LineSameYear,
   LineFarFuture, LineFullDate, LineFuture, LineAncient, LineNearFuture}

\* the texts of at most MaxLines lines
Texts ==
  UNION {[1..n -> LineLibrary] : n \in 1..MaxLines}

\* "12015 - 20199" and "2015 - 20155": digits next to the years of a range
LineDigits == << Num(12015, 5), Dash, Num(20199, 5) >>
LineDigitsAfter == << Year(2015), Dash, Num(20155, 5) >>

(***************************************************************************)
(* DateValidationConfigPersistence: the configuration in the KV store      *)
(* under CONFIG_KEY, the cache in front of it, and the asynchronous calls  *)
(* that have been started and are suspended at an await.                   *)
(***************************************************************************)

\* CACHE_TTL = 5 * 60 * 1000 milliseconds, in minutes
CACHE_TTL == 5

\* the clock of Date.now() runs from 0 to MaxTime minutes
MaxTime == 5

\* the number of calls started on one persistence manager
MaxCalls == 3

\* kv.get answers null when nothing is stored under the key
NoData == [kind |-> "null"]

\* the empty string is stored under the key: !storedData holds as for null
EmptyText == [kind |-> "empty"]

\* a stored string that JSON.parse rejects
NotJson == [kind |-> "text"]

\* the promise of kv.get was rejected
Rejected == [kind |-> "rejected"]

\* JSON.stringify({ version, timestamp, config })
Stored(cfg) == [kind |-> "json", config |-> cfg]

\* this.cache = null, and the configuration of a call that has none
NoConfig == [none |-> TRUE]

\* new DateValidationConfigPersistence() in front of a store that holds
\* stored: the cache is empty; time is Date.now(), calls are the calls
\* started so far, and lastSaved is the configuration of the last saveConfig
\* that returned true with no save or delete in flight when it was started
\* and none started after it
NewPersistence(stored) ==
  [kv |-> stored, cache |-> NoConfig, cacheTimestamp |-> 0, time |-> 0,
   calls |-> << >>, lastSaved |-> NoConfig]

\* this.cache !== null && (Date.now() - this.cacheTimestamp) < this.CACHE_TTL
isCacheValid(p) ==
  /\ p.cache # NoConfig
  /\ p.time - p.cacheTimestamp < CACHE_TTL

\* isValidConfigData(data) for the parsed text of a Stored(cfg): every
\* required property is there with its type, and the numbers are in range
isValidConfigData(data) ==
  /\ \A f \in {"maxFutureEducationYears", "maxFutureWorkMonths",
               "confidenceThreshold"} :
       f \in DOMAIN data.config /\ data.config[f].typeof = "number"
  /\ \A f \in {"enableTypoDetection", "strictMode"} :
       f \in DOMAIN data.config /\ data.config[f].typeof = "boolean"
  /\ "num" \in DOMAIN data.config.maxFutureEducationYears
  /\ "num" \in DOMAIN data.config.maxFutureWorkMonths
  /\ "num" \in DOMAIN data.config.confidenceThreshold
  /\ ~(data.config.maxFutureEducationYears.num < 0
       \/ data.config.maxFutureEducationYears.num > 10)
  /\ ~(data.config.maxFutureWorkMonths.num < 0
       \/ data.config.maxFutureWorkMonths.num > 12)
  /\ ~(data.config.confidenceThreshold.num < 0
       \/ data.config.confidenceThreshold.num > 100000)

\* the configurations that callers save
SavedConfigs ==
  {JsConfig(Merge(DEFAULT_VALIDATION_CONFIG, [strictMode |-> TRUE])),
   JsConfig(Merge(DEFAULT_VALIDATION_CONFIG, [maxFutureWorkMonths |-> 6]))}

\* what an earlier session may have left in the store: nothing, the empty
\* string, a valid configuration, text that is not JSON, a configuration out
\* of range, and a configuration with a property missing
StoredValues ==
  {NoData, EmptyText,
   Stored(JsConfig(Merge(DEFAULT_VALIDATION_CONFIG,
                         [maxFutureEducationYears |-> 2]))),
   NotJson,
   Stored(JsConfig(Merge(DEFAULT_VALIDATION_CONFIG,
                         [maxFutureWorkMonths |-> 13]))),
   Stored([maxFutureEducationYears |-> JsNumber(4)])}

\* a saveConfig or deleteConfig of a caller has not settled
WriterInFlight(p) ==
  \E j \in 1..Len(p.calls) :
    /\ p.calls[j].op \in {"saveConfig", "deleteConfig"}
    /\ p.calls[j].pc # "returned"

\* a call that was started: its operation, the await it is suspended at
\* ("returned" when it has settled), the configuration it carries, what
\* kv.get or kv.set or kv.delete answered, what the call returned, for a
\* loadConfig the configuration that the last completed save had stored when
\* the call was started, and whether no save or delete was in flight then
NewCall(p, op, pc, cfg) ==
  [op |-> op, pc |-> pc, config |-> cfg, answer |-> NoData, ret |-> NoConfig,
   expects |-> IF op = "loadConfig" THEN p.lastSaved ELSE NoConfig,
   alone |-> ~WriterInFlight(p)]

\* a saveConfig or deleteConfig of a caller was in flight when call i was
\* started, or was started after call i
OtherWriter(p, i) ==
  \/ ~p.calls[i].alone
  \/ \E j \in (i + 1)..Len(p.calls) :
       p.calls[j].op \in {"saveConfig", "deleteConfig"}

\* loadConfig() up to its first await: the cached configuration is returned
\* while the cache is valid, else kv.get is awaited
loadConfig(p) ==
  IF isCacheValid(p)
    THEN [p EXCEPT !.calls =
            Append(@, [NewCall(p, "loadConfig", "returned", NoConfig)
                         EXCEPT !.ret = p.cache])]
    ELSE [p EXCEPT !.calls =
            Append(@, NewCall(p, "loadConfig", "kv.get", NoConfig))]

\* kv.get(CONFIG_KEY) for call i: the store answers with what it holds, or
\* the promise is rejected
kvGet(p, i, rejects) ==
  [p EXCEPT !.calls[i].answer = IF rejects THEN Rejected ELSE p.kv,
            !.calls[i].pc = "got"]

\* loadConfig() after kv.get has settled: defaults are returned when the
\* promise was rejected; saveConfig(defaults) is called, up to its await of
\* kv.set, when nothing, the empty string or an invalid structure is stored;
\* defaults are returned for text that does not parse; a valid
\* configuration is merged over the defaults, cached and returned
loadConfigResumes(p, i) ==
  Bind(p.calls[i].answer, LAMBDA storedData :
    IF storedData = Rejected
      THEN [p EXCEPT !.calls[i].ret = JsConfig(DEFAULT_VALIDATION_CONFIG),
                     !.calls[i].pc = "returned"]
    ELSE IF storedData \in {NoData, EmptyText}
      THEN [p EXCEPT !.calls[i].config = JsConfig(DEFAULT_VALIDATION_CONFIG),
                     !.calls[i].pc = "kv.set"]
    ELSE IF storedData = NotJson
      THEN [p EXCEPT !.calls[i].ret = JsConfig(DEFAULT_VALIDATION_CONFIG),
                     !.calls[i].pc = "returned"]
    ELSE IF ~isValidConfigData(storedData)
      THEN [p EXCEPT !.calls[i].config = JsConfig(DEFAULT_VALIDATION_CONFIG),
                     !.calls[i].pc = "kv.set"]
    ELSE Bind(Merge(JsConfig(DEFAULT_VALIDATION_CONFIG), storedData.config),
           LAMBDA cfg :
             [p EXCEPT !.cache = cfg, !.cacheTimestamp = p.time,
                       !.calls[i].ret = cfg, !.calls[i].pc = "returned"]))

\* saveConfig(config) up to its await of kv.set
saveConfig(p, cfg) ==
  [p EXCEPT !.calls = [j \in 1..(Len(p.calls) + 1) |->
                         IF j = Len(p.calls) + 1
                           THEN NewCall(p, "saveConfig", "kv.set", cfg)
                           ELSE [p.calls[j] EXCEPT !.expects = NoConfig]],
            !.lastSaved = NoConfig]

\* kv.set(CONFIG_KEY, JSON.stringify(dataToStore)) for call i: the store
\* takes the text and answers true, or keeps what it has; then it answers
\* false or rejects the promise, and saveConfig returns false for both
kvSet(p, i, success) ==
  [p EXCEPT !.kv = IF success THEN Stored(p.calls[i].config) ELSE p.kv,
            !.calls[i].answer = [kind |-> "boolean", bool |-> success],
            !.calls[i].pc = "set"]

\* saveConfig after kv.set has settled: on success the cache takes a copy of
\* the configuration, and the answer is returned; the saveConfig that
\* loadConfig called returns to loadConfig, which is resumed later
saveConfigResumes(p, i) ==
  Bind(p.calls[i].answer.bool, LAMBDA success :
    [p EXCEPT
       !.cache = IF success THEN p.calls[i].config ELSE p.cache,
       !.cacheTimestamp = IF success THEN p.time ELSE p.cacheTimestamp,
       !.calls[i].ret = IF p.calls[i].op = "loadConfig"
                          THEN p.calls[i].ret
                          ELSE [kind |-> "boolean", bool |-> success],
       !.calls[i].pc = IF p.calls[i].op = "loadConfig" THEN "saved"
                       ELSE "returned",
       !.lastSaved = IF p.calls[i].op = "loadConfig" THEN p.lastSaved
                     ELSE IF success /\ ~OtherWriter(p, i)
                       THEN p.calls[i].config
                     ELSE NoConfig])

\* loadConfig() after its saveConfig(defaultConfig) has returned: the
\* defaults are returned, whatever saveConfig answered
loadConfigReturns(p, i) ==
  [p EXCEPT !.calls[i].ret = p.calls[i].config, !.calls[i].pc = "returned"]

\* deleteConfig() up to its await of kv.delete
deleteConfig(p) ==
  [p EXCEPT !.calls = [j \in 1..(Len(p.calls) + 1) |->
                         IF j = Len(p.calls) + 1
                           THEN NewCall(p, "deleteConfig", "kv.delete",
                                        NoConfig)
                           ELSE [p.calls[j] EXCEPT !.expects = NoConfig]],
            !.lastSaved = NoConfig]

\* kv.delete(CONFIG_KEY) for call i: the store drops the key and answers
\* true, or keeps what it has; then it answers false or rejects the
\* promise, and deleteConfig returns false for both
kvDelete(p, i, success) ==
  [p EXCEPT !.kv = IF success THEN NoData ELSE p.kv,
            !.calls[i].answer = [kind |-> "boolean", bool |-> success],
            !.calls[i].pc = "deleted"]

\* deleteConfig after kv.delete has settled: on success the cache is
\* cleared
deleteConfigResumes(p, i) ==
  Bind(p.calls[i].answer.bool, LAMBDA success :
    [p EXCEPT
       !.cache = IF success THEN NoConfig ELSE p.cache,
       !.cacheTimestamp = IF success THEN 0 ELSE p.cacheTimestamp,
       !.calls[i].ret = [kind |-> "boolean", bool |-> success],
       !.calls[i].pc = "returned"])

\* clearCache()
clearCache(p) == [p EXCEPT !.cache = NoConfig, !.cacheTimestamp = 0]

(***************************************************************************)
(* DateValidationLogger: the log entries, the performance metrics and the  *)
(* edge cases it holds.  Every entry carries the number of the push that   *)
(* wrote it, so that the entries kept by a trim can be told from the ones  *)
(* dropped.                                                                *)
(***************************************************************************)
maxLogEntries == 1000
maxPerformanceEntries == 500
maxEdgeCases == 200

\* array.slice(0, n): the first n elements
SliceFront(array, n) ==
  IF Len(array) <= n THEN array ELSE SubSeq(array, 1, n)

\* array.slice(-n): the last n elements
Slice(array, n) ==
  IF Len(array) <= n THEN array
  ELSE SubSeq(array, Len(array) - n + 1, Len(array))

\* a logger with nothing in it: the three arrays, debugMode and
\* performanceThreshold (in milliseconds), the numbers of the pushes made on
\* each array so far, since the last clearLogs() the number of log entries
\* written and of validateResumeDates calls made, and the number of calls
\* of its users that were followed
EmptyLogger ==
  [logEntries |-> << >>, performanceMetrics |-> << >>, edgeCases |-> << >>,
   debugMode |-> FALSE, performanceThreshold |-> 1000,
   pushedLogs |-> 0, pushedMetrics |-> 0, pushedEdgeCases |-> 0,
   written |-> 0, validations |-> 0, calls |-> 0]

\* the entry of log(level, category, operation, data); of the data, success
\* is kept as "true" or "false" ("none" when the data has no such property)
LogEntry(id, level, category, operation, success) ==
  [id |-> id, level |-> level, category |-> category,
   operation |-> operation, success |-> success]

\* trimLogEntries(): the newest maxLogEntries entries are kept; the trimming
\* itself is logged when that leaves room for more than ten entries
trimLogEntries(lg) ==
  IF Len(lg.logEntries) > maxLogEntries
  THEN Bind(Slice(lg.logEntries, maxLogEntries), LAMBDA kept :
         IF Len(kept) < maxLogEntries - 10
         THEN [lg EXCEPT
                 !.logEntries =
                   Append(kept, LogEntry(lg.pushedLogs + 1, "debug", "config",
                                         "log_entries_trimmed", "none")),
                 !.pushedLogs = @ + 1, !.written = @ + 1]
         ELSE [lg EXCEPT !.logEntries = kept])
  ELSE lg

\* log(level, category, operation, data); debugMode decides only whether
\* an entry of level debug is also written to the console
log(lg, level, category, operation, success) ==
  trimLogEntries(
    [lg EXCEPT
       !.logEntries = Append(@, LogEntry(lg.pushedLogs + 1, level, category,
                                         operation, success)),
       !.pushedLogs = @ + 1, !.written = @ + 1])

\* setDebugMode(enabled)
setDebugMode(lg, enabled) ==
  log([lg EXCEPT !.debugMode = enabled], "info", "config",
      "debug_mode_changed", "none")

\* setPerformanceThreshold(thresholdMs): the threshold is assigned before
\* the change is logged
setPerformanceThreshold(lg, thresholdMs) ==
  log([lg EXCEPT !.performanceThreshold = thresholdMs], "info", "config",
      "performance_threshold_changed", "none")

\* trimPerformanceMetrics()
trimPerformanceMetrics(lg) ==
  IF Len(lg.performanceMetrics) > maxPerformanceEntries
  THEN [lg EXCEPT !.performanceMetrics = Slice(@, maxPerformanceEntries)]
  ELSE lg

\* trimEdgeCases()
trimEdgeCases(lg) ==
  IF Len(lg.edgeCases) > maxEdgeCases
  THEN [lg EXCEPT !.edgeCases = Slice(@, maxEdgeCases)]
  ELSE lg

\* startPerformanceMonitoring(operationName): the operationId it returns is
\* the number of the metric, lg.pushedMetrics + 1
startPerformanceMonitoring(lg, operationName) ==
  log(trimPerformanceMetrics(
        [lg EXCEPT
           !.performanceMetrics =
             Append(@, [id |-> lg.pushedMetrics + 1,
                        operationName |-> operationName, ended |-> FALSE]),
           !.pushedMetrics = @ + 1]),
      "debug", "performance", "operation_started", "none")

\* the index of the metric with this operationId, 0 when there is none
FindMetric(lg, operationId) ==
  IF \E k \in 1..Len(lg.performanceMetrics) :
       lg.performanceMetrics[k].id = operationId
  THEN CHOOSE k \in 1..Len(lg.performanceMetrics) :
         lg.performanceMetrics[k].id = operationId
  ELSE 0

\* endPerformanceMonitoring(operationId, additionalData) of an operation
\* that took duration milliseconds; success is the property of that name in
\* additionalData, which the entry of the operation takes over
endPerformanceMonitoring(lg, operationId, duration, success) ==
  Bind(FindMetric(lg, operationId), LAMBDA k :
    IF k = 0
    THEN log(lg, "warn", "performance", "operation_not_found", "none")
    ELSE IF duration > lg.performanceThreshold
    THEN log([lg EXCEPT !.performanceMetrics[k].ended = TRUE],
             "warn", "performance", "slow_operation_detected", success)
    ELSE log([lg EXCEPT !.performanceMetrics[k].ended = TRUE],
             "debug", "performance", "operation_completed", success))

\* `edge_case_${caseType}`
EdgeCaseOperation(caseType) ==
  CASE caseType = "unusual_date_format" -> "edge_case_unusual_date_format"
    [] caseType = "ambiguous_date" -> "edge_case_ambiguous_date"
    [] caseType = "missing_date" -> "edge_case_missing_date"
    [] caseType = "invalid_date" -> "edge_case_invalid_date"
    [] caseType = "unexpected_pattern" -> "edge_case_unexpected_pattern"

\* logEdgeCase(caseType, ...)
logEdgeCase(lg, caseType) ==
  log(trimEdgeCases(
        [lg EXCEPT
           !.edgeCases = Append(@, [id |-> lg.pushedEdgeCases + 1,
                                    caseType |-> caseType]),
           !.pushedEdgeCases = @ + 1]),
      "info", "edge-case", EdgeCaseOperation(caseType), "none")

\* clearLogs()
clearLogs(lg) ==
  log([lg EXCEPT !.logEntries = << >>, !.performanceMetrics = << >>,
                 !.edgeCases = << >>, !.written = 0, !.validations = 0],
      "info", "config", "logs_cleared", "none")

\* logValidationResults(..., success)
logValidationResults(lg, success) ==
  log(lg, "info", "validation", "validation_completed", success)

\* getAnalytics(): the three counts of validations
getAnalytics(lg) ==
  Bind({k \in 1..Len(lg.logEntries) :
          /\ lg.logEntries[k].category = "validation"
          /\ lg.logEntries[k].operation = "validation_completed"},
    LAMBDA validationLogs :
      Bind({k \in validationLogs : lg.logEntries[k].success = "true"},
        LAMBDA successful :
          [totalValidations |-> Cardinality(validationLogs),
           successfulValidations |-> Cardinality(successful),
           failedValidations |->
             Cardinality(validationLogs) - Cardinality(successful)]))

\* new ResumeDateValidationService(config), what its constructor writes to
\* the logger: setDebugMode(true), then service_initialized
ResumeDateValidationService(lg) ==
  log(setDebugMode(lg, TRUE), "info", "validation", "service_initialized",
      "none")

\* DateValidationLogger.getInstance() for the first time, which writes
\* logger_initialized, in the constructor of the first service
NewLogger ==
  ResumeDateValidationService(log(EmptyLogger, "info", "validation",
                                  "logger_initialized", "none"))

\* `${operation}_failed`
FailedOperation(operation) ==
  CASE operation = "parse_date" -> "parse_date_failed"
    [] operation = "parse_resume" -> "parse_resume_failed"

\* debugWithTiming(operation, fn) with an fn that returns or throws and
\* that makes no call on the logger; duration is the time in milliseconds
\* that endPerformanceMonitoring finds
debugWithTiming(lg, operation, throws, duration) ==
  IF ~lg.debugMode THEN lg
  ELSE Bind(startPerformanceMonitoring(lg, operation), LAMBDA started :
         IF throws
         THEN log(endPerformanceMonitoring(started, started.pushedMetrics,
                                           duration, "false"),
                  "error", "validation", FailedOperation(operation), "none")
         ELSE endPerformanceMonitoring(started, started.pushedMetrics,
                                       duration, "true"))

\* metrics.endTime - metrics.startTime in milliseconds as a call of
\* endPerformanceMonitoring made by validateResumeDates computes it: each
\* call reads performance.now() anew; slow holds the sites of the calls
\* that find the operation to have taken long
Duration(site, slow) ==
  IF site \in slow THEN 1500 ELSE 200

\* one call of validateResumeDates made on the logger; operationId is the
\* one that the first call of the run was given
MakeLoggerCall(lg, c, operationId, slow) ==
  CASE c.fn = "start" -> startPerformanceMonitoring(lg, c.operation)
    [] c.fn = "end" ->
         endPerformanceMonitoring(lg, lg.pushedMetrics,
                                  Duration(c.site, slow), c.success)
    [] c.fn = "endOuter" ->
         endPerformanceMonitoring(lg, operationId,
                                  Duration(c.site, slow), c.success)
    [] c.fn = "log" -> log(lg, c.level, c.category, c.operation, c.success)
    [] c.fn = "results" -> logValidationResults(lg, c.success)
    [] c.fn = "edge" -> logEdgeCase(lg, c.operation)

RECURSIVE MakeLoggerCalls(_, _, _, _, _)
MakeLoggerCalls(lg, calls, k, operationId, slow) ==
  IF k > Len(calls) THEN lg
  ELSE Bind(MakeLoggerCall(lg, calls[k], operationId, slow), LAMBDA next :
         MakeLoggerCalls(next, calls, k + 1, operationId, slow))

\* the calls of a run that wrote to the logger: those made on the logger
\* that did not fail
Written(calls, faults) ==
  SelectSeq(calls, LAMBDA c : /\ c.fn \notin {"stage", "logDate"}
                              /\ c.site \notin faults)

\* the logger after a run of validateResumeDates(resumeText)
LoggedValidation(lg, run, faults, slow) ==
  MakeLoggerCalls([lg EXCEPT !.validations = @ + 1],
                  Written(run.calls, faults), 1, lg.pushedMetrics + 1, slow)

\* a logger that has been in use: the logger of a new service after m
\* startPerformanceMonitoring calls, e logEdgeCase calls and n log calls
UsedLogger(m, e, n) ==
  [logEntries |->
     [k \in 1..(3 + m + e + n) |->
        IF k <= 3 THEN NewLogger.logEntries[k]
        ELSE IF k <= 3 + m
          THEN LogEntry(k, "debug", "performance", "operation_started",
                        "none")
        ELSE IF k <= 3 + m + e
          THEN LogEntry(k, "info", "edge-case", "edge_case_invalid_date",
                        "none")
        ELSE LogEntry(k, "info", "parsing", "date_parsed", "none")],
   performanceMetrics |->
     [k \in 1..m |-> [id |-> k, operationName |-> "parse_date",
                      ended |-> FALSE]],
   edgeCases |-> [k \in 1..e |-> [id |-> k, caseType |-> "invalid_date"]],
   debugMode |-> TRUE, performanceThreshold |-> 1000,
   pushedLogs |-> 3 + m + e + n, pushedMetrics |-> m, pushedEdgeCases |-> e,
   written |-> 3 + m + e + n, validations |-> 0, calls |-> 0]

(***************************************************************************)
(* The service as a state machine: its configuration, the clock, and the   *)
(* last call with what it returned.                                        *)
(***************************************************************************)
\* the times the clock is read at: midnight of a day, and noon of a day of
\* the year after
NowSet == {At(MkDate(2026, 10, 29), 12), MkDate(2025, 3, 1)}

\* the updates applied to the configuration
ConfigUpdates ==
  {[confidenceThreshold |-> 100000], [confidenceThreshold |-> 50000],
   [strictMode |-> TRUE], [enableTypoDetection |-> FALSE],
   [maxFutureWorkMonths |-> 13]}

\* number of configuration updates in a behaviour
MaxUpdates == 1

\* number of calls that fail in one call of validateResumeDates
MaxFaults == 1

\* the sets of at most n of these sites
RECURSIVE FaultSetsOf(_, _)
FaultSetsOf(sites, n) ==
  IF n = 0 THEN {{}}
  ELSE FaultSetsOf(sites, n - 1)
       \cup {F \cup {s} : F \in FaultSetsOf(sites, n - 1), s \in sites}

\* the failures of stages
FaultSets == FaultSetsOf(Stages, MaxFaults)

\* the two calls that end the monitoring of validate_resume_dates: the one
\* before the result is returned, and the one of the catch clause
OuterEnds == {"end_validate_resume_dates", "end_validate_resume_dates_failed"}

\* the calls of endPerformanceMonitoring that find their operation to have
\* taken long.  The clock does not go back: a second end of an operation
\* finds no less time than the first, and validate_resume_dates, which is
\* started first, has taken longer than any stage that has ended
SlowSets ==
  {{}, {"end_validate_resume_dates_failed"}, OuterEnds,
   {"end_validate_education_timeline_failed"} \cup OuterEnds,
   {"end_validate_education_timeline",
    "end_validate_education_timeline_failed"} \cup OuterEnds}

Input(kind, lines) == [kind |-> kind, lines |-> lines]

Inputs ==
  {Input(k, << >>) : k \in {"null", "number", "empty", "blank"}}
  \cup {Input("text", t) : t \in Texts}

\* the inputs that are also validated while a call on the logger fails, and
\* with operations that take long
LoggedInputs ==
  {Input("null", << >>), Input("blank", << >>),
   Input("text", << HeaderEducation, LineFarFuture >>)}

\* a call that fails in a try block together with a call that fails in the
\* catch clause that receives the failure
HandlerFaultSets ==
  {{"validateEducationTimeline", h} :
     h \in {EducationValidation.endFailed, EducationValidation.failed}}
  \cup {{"logEdgeCase", "edge_case_logging_failed"}}
  \cup {{"logValidationResults", h} :
          h \in {"end_validate_resume_dates_failed",
                 "validation_critical_error", "logDate_validation_failed",
                 "logValidationResults_failed"}}

\* the failures of one call: of a stage, and for the inputs of LoggedInputs
\* of any call, and of a call together with its catch clause
FaultSetsFor(resumeText) ==
  IF resumeText \in LoggedInputs
  THEN FaultSetsOf(Sites, MaxFaults) \cup HandlerFaultSets
  ELSE FaultSets

SlowSetsFor(resumeText) ==
  IF resumeText \in LoggedInputs THEN SlowSets ELSE {{}}

NoCall == [op |-> "none", input |-> << >>, faults |-> {}]

\* the service after construction, without the persistence manager and the
\* logger
InitService ==
  /\ config = DEFAULT_VALIDATION_CONFIG
  /\ now \in NowSet
  /\ nUpdates = 0
  /\ call = NoCall
  /\ result = << >>
  /\ trace = NoTrace
  /\ manager = NewManager
  /\ lastIndex = [type \in {"month_year", "full_date"} |-> 0]
  /\ returned = << >>

Init ==
  /\ InitService
  /\ persistence = NewPersistence(NoData)
  /\ logger = NewLogger
  /\ suggestionGenerator = DateSuggestionGenerator(now)

\* the service is kept while time passes: the clock is read at a later time
TimePasses ==
  /\ call.op = "none"
  /\ \E later \in NowSet :
       /\ getTime(later) > getTime(now)
       /\ now' = later
  /\ UNCHANGED << config, nUpdates, call, result, trace, manager, lastIndex,
                  returned, persistence, logger, suggestionGenerator >>

UpdateConfigSync ==
  /\ call.op = "none"
  /\ nUpdates < MaxUpdates
  /\ \E updates \in ConfigUpdates :
       config' = updateConfigSync(config, updates)
  /\ nUpdates' = nUpdates + 1
  /\ UNCHANGED << manager, lastIndex, returned, now, call, result, trace,
                  persistence, logger, suggestionGenerator >>

\* one more call on the logger
Called(lg) == [lg EXCEPT !.calls = @ + 1]

\* validateResumeDates(resumeText) with what it writes to the logger
ValidateResumeDates ==
  /\ call.op = "none"
  /\ \E resumeText \in Inputs :
       \E faults \in FaultSetsFor(resumeText) :
         \E run \in {validateResumeDates(resumeText, faults, config, now,
                                         suggestionGenerator)} :
           /\ call' = [op |-> "validateResumeDates", input |-> resumeText,
                       faults |-> faults]
           /\ result' = run.result
           /\ trace' = run.trace
           /\ \E slow \in SlowSetsFor(resumeText) :
                logger' = Called(LoggedValidation(logger, run, faults, slow))
  /\ UNCHANGED << manager, lastIndex, returned, config, now, nUpdates,
                  persistence, suggestionGenerator >>

Next == UpdateConfigSync \/ TimePasses \/ ValidateResumeDates

Spec == Init /\ [][Next]_vars

(***************************************************************************)
(* The timeline validators on their own: the period lists they are given   *)
(* are drawn from a small set of dates.                                    *)
(***************************************************************************)
\* the dates a period is made of
TimelineDates ==
  {NoDate, MkDate(2018, 1, 1), MkDate(2020, 1, 1), MkDate(2022, 5, 1),
   MkDate(2028, 10, 29), MkDate(2031, 6, 1)}

\* "University of technology"
LineUniversityCapital == << W("University"), W("of"), W("technology") >>

\* the periods at one institution, and two periods at the institution
\* spelled with a capital letter and at another one
EducationPeriods ==
  {[institution |-> LineUniversity, degree |-> NoLine, startDate |-> s,
    endDate |-> e, isOngoing |-> o, originalText |-> << LineUniversity >>,
    confidence |-> Double(90000)] :
     s \in TimelineDates, e \in TimelineDates, o \in BOOLEAN}
  \cup {[institution |-> i, degree |-> NoLine,
          startDate |-> MkDate(2018, 1, 1), endDate |-> MkDate(2022, 5, 1),
          isOngoing |-> FALSE, originalText |-> << i >>,
          confidence |-> Double(90000)] :
           i \in {LineUniversityCapital, UnknownInstitution}}

WorkExperiences ==
  {[company |-> LineAcme, position |-> UnknownPosition, startDate |-> s,
    endDate |-> e, isOngoing |-> o, originalText |-> << LineAcme >>,
    confidence |-> Double(90000)] :
     s \in TimelineDates, e \in TimelineDates, o \in BOOLEAN}

\* the lists of at most MaxPeriods periods
ListsOf(S) == UNION {[1..n -> S] : n \in 0..MaxPeriods}

ValidateEducationTimeline ==
  /\ call.op = "none"
  /\ \E education \in ListsOf(EducationPeriods) :
       /\ call' = [op |-> "validateEducationTimeline", input |-> education,
                   faults |-> {}]
       /\ result' = validateEducationTimeline(education, now, config)
  /\ UNCHANGED << manager, lastIndex, returned, config, now, nUpdates, trace,
                  persistence, logger, suggestionGenerator >>

ValidateWorkTimeline ==
  /\ call.op = "none"
  /\ \E work \in ListsOf(WorkExperiences) :
       /\ call' = [op |-> "validateWorkTimeline", input |-> work,
                   faults |-> {}]
       /\ result' = validateWorkTimeline(work, now, config)
  /\ UNCHANGED << manager, lastIndex, returned, config, now, nUpdates, trace,
                  persistence, logger, suggestionGenerator >>

NextTimeline == ValidateEducationTimeline \/ ValidateWorkTimeline

SpecTimeline == Init /\ [][NextTimeline]_vars

(***************************************************************************)
(* The work validator on a pair of experiences whose dates lie close to    *)
(* each other.                                                             *)
(***************************************************************************)
\* Jan 2020, Jun 2021, Dec 2021 and Jan 2022
OverlapDates ==
  {NoDate, MkDate(2020, 1, 1), MkDate(2021, 6, 1), MkDate(2021, 12, 1),
   MkDate(2022, 1, 1)}

OverlapExperiences ==
  {[company |-> LineAcme, position |-> UnknownPosition, startDate |-> s,
    endDate |-> e, isOngoing |-> o, originalText |-> << LineAcme >>,
    confidence |-> Double(90000)] :
     s \in OverlapDates, e \in OverlapDates, o \in BOOLEAN}

ValidateWorkPair ==
  /\ call.op = "none"
  /\ \E work1 \in OverlapExperiences, work2 \in OverlapExperiences :
       /\ call' = [op |-> "validateWorkTimeline", input |-> << work1, work2 >>,
                   faults |-> {}]
       /\ result' = validateWorkTimeline(<< work1, work2 >>, now, config)
  /\ UNCHANGED << manager, lastIndex, returned, config, now, nUpdates, trace,
                  persistence, logger, suggestionGenerator >>

NextOverlap == ValidateWorkPair

SpecOverlap == Init /\ [][NextOverlap]_vars

(***************************************************************************)
(* The date parser on its own.                                             *)
(***************************************************************************)
\* the strings parseDate is given: each line of the library, and the two
\* sides of the malformed range
DateStrings ==
  LineLibrary
  \cup {<< >>, << Year(2018) >>, << Mon(9), Year(2018) >>, << W("present") >>,
        << Year(2025), Slash, Num(13, 2), Slash, Num(45, 2) >>,
        << Year(2026), Slash, Num(99, 2), Slash, Num(99, 2) >>}

\* the years around the bounds of isValidYear at the two clock dates
BoundaryYears == {1949, 1950, 2035, 2036, 2037}

\* the spellings of the months: the full names and the three-letter
\* abbreviations in lower case, and some in other letter cases
MonthSpellings ==
  {MonthWord(monthNames[m], m, MonthLens[m]) : m \in 1..12}
  \cup {MonthWord(monthAbbreviations[m], m, 3) : m \in 1..12}
  \cup {MonthWord("January", 1, 7), MonthWord("JAN", 1, 3),
        MonthWord("Sep", 9, 3), MonthWord("DECEMBER", 12, 8),
        MonthWord("mAy", 5, 3)}

\* a month name, a blank and a year
MonthYearStrings ==
  {<< mw, Num(y, 4) >> : mw \in MonthSpellings, y \in BoundaryYears}

\* one or two digits for a month or a day
DayDigits(v) == IF v < 10 THEN {Num(v, 1), Num(v, 2)} ELSE {Num(v, 2)}

\* numeric dates M/D/YYYY of days that exist, among them the leap day, the
\* ends of months and the first and a late year of isValidYear
FullDateStrings ==
  UNION {{<< mm, Slash, dd, Slash, Num(date.y, 4) >> :
            mm \in DayDigits(date.m), dd \in DayDigits(date.d)} :
           date \in {x \in [y : {1950, 2020, 2023, 2035}, m : {1, 2, 4, 12},
                            d : {1, 15, 28, 29, 30, 31}] :
                       x.d <= DaysInMonth(x.y, x.m)}}

ExtractDatesFromText ==
  /\ call.op = "none"
  /\ \E text \in Texts \cup {<< LineDigits >>, << LineDigitsAfter >>,
                           << LineDigits, LineRange >>} :
       /\ call' = [op |-> "extractDatesFromText", input |-> text,
                   faults |-> {}]
       /\ result' = extractDatesFromText(text, now)
  /\ UNCHANGED << manager, lastIndex, returned, config, now, nUpdates, trace,
                  persistence, logger, suggestionGenerator >>

ParseDate ==
  /\ call.op = "none"
  /\ \E dateString \in DateStrings \cup MonthYearStrings \cup FullDateStrings :
       /\ call' = [op |-> "parseDate", input |-> dateString, faults |-> {}]
       /\ result' = parseDate(dateString, now)
  /\ UNCHANGED << manager, lastIndex, returned, config, now, nUpdates, trace,
                  persistence, logger, suggestionGenerator >>

NextParser == ExtractDatesFromText \/ ParseDate

SpecParser == Init /\ [][NextParser]_vars

(***************************************************************************)
(* One parser used for call after call.                                    *)
(***************************************************************************)
\* the texts given to the parser again and again
ReuseTexts ==
  {<< LineMonths >>, << LineFullDate >>, << LineMonths, LineFullDate >>,
   << LineSameYear >>}

\* the (startIndex, text) pairs of a list of extracted dates
PairsOf(dates) ==
  {<< dates[k].startIndex, dates[k].text >> : k \in 1..Len(dates)}

\* a function with one more argument
With(f, x, y) == [z \in DOMAIN f \cup {x} |-> IF z = x THEN y ELSE f[z]]

\* extractDatesFromText(text) on a parser that has been used before; the
\* pairs of the first call on each text are kept
ExtractDatesAgain ==
  /\ \E text \in ReuseTexts :
       \E dates \in {extractDatesFromText(text, now)} :
         /\ call' = [op |-> "extractDatesFromText", input |-> text,
                     faults |-> {}]
         /\ result' = dates
         /\ returned' =
              IF text \in DOMAIN returned
              THEN [returned EXCEPT ![text].again = TRUE]
              ELSE With(returned, text,
                        [pairs |-> PairsOf(dates), again |-> FALSE])
  /\ UNCHANGED << config, now, nUpdates, trace, manager, lastIndex,
                  persistence, logger, suggestionGenerator >>

DetectDateFormat ==
  /\ \E text \in ReuseTexts :
       \E detected \in {detectDateFormat(text, lastIndex)} :
         /\ call' = [op |-> "detectDateFormat", input |-> text,
                     faults |-> {}]
         /\ result' = detected.format
         /\ lastIndex' = detected.lastIndex
  /\ UNCHANGED << config, now, nUpdates, trace, manager, returned, persistence,
                  logger, suggestionGenerator >>

ParseDateAgain ==
  /\ \E dateString \in ReuseTexts :
       /\ Len(dateString) = 1
       /\ call' = [op |-> "parseDate", input |-> dateString[1], faults |-> {}]
       /\ result' = parseDate(dateString[1], now)
  /\ UNCHANGED << config, now, nUpdates, trace, manager, lastIndex, returned,
                  persistence, logger, suggestionGenerator >>

NextReuse == ExtractDatesAgain \/ DetectDateFormat \/ ParseDateAgain

SpecReuse == Init /\ [][NextReuse]_vars

(***************************************************************************)
(* The lists of a validation context as objects.  Array.prototype.sort     *)
(* sorts the array it is called on; the lists a method was given are       *)
(* followed through each sort the method makes.                            *)
(***************************************************************************)
\* array.sort(...): the array itself is left sorted
SortedInPlace(array, sorted) == sorted

\* [...array].sort(...) and array.filter(...).sort(...): a new array is
\* sorted, the array is left as it was
SortedCopy(array, sorted) == array

\* validateEducationTimeline only reads its list
AfterValidateEducationTimeline(context) ==
  [educationPeriods |-> context.educationPeriods,
   workExperience |-> context.workExperience]

\* validateWorkTimeline sorts [...work]
AfterValidateWorkTimeline(context) ==
  [educationPeriods |-> context.educationPeriods,
   workExperience |->
     SortedCopy(context.workExperience,
                SortWorkByStart(context.workExperience))]

\* the career-progression rule sorts workExperience.filter(...) when there
\* are two experiences or more; the education-work-consistency rule sorts
\* educationPeriods.filter(...) and workExperience.filter(...)
AfterApplyValidationRules(context) ==
  LET work == IF Len(context.workExperience) < 2 THEN context.workExperience
              ELSE SortedCopy(context.workExperience,
                              SortedByStart(context.workExperience))
  IN  [educationPeriods |->
         SortedCopy(context.educationPeriods,
                    FinishedByEndDescending(context.educationPeriods)),
       workExperience |-> SortedCopy(work, SortedByStart(work))]

\* generateEducationTimelineGapSuggestions sorts
\* [...educationPeriods].filter(...)
AfterGenerateSuggestions(context) ==
  [educationPeriods |->
     SortedCopy(context.educationPeriods,
                SortedByStart(context.educationPeriods)),
   workExperience |-> context.workExperience]

FrameDates == {NoDate, MkDate(2022, 5, 1), MkDate(2018, 1, 1)}

FrameContexts ==
  {[educationPeriods |-> education, workExperience |-> work,
    currentDate |-> now, config |-> config] :
     education \in ListsOf({p \in EducationPeriods :
                              /\ p.startDate \in FrameDates
                              /\ p.endDate \in FrameDates
                              /\ ~p.isOngoing}),
     work \in ListsOf({w \in WorkExperiences :
                         /\ w.startDate \in FrameDates
                         /\ w.endDate \in FrameDates
                         /\ ~w.isOngoing})}

\* the lists of the context as the call left them
Left(after) ==
  [NoTrace EXCEPT !.educationPeriods = after.educationPeriods,
                  !.workExperience = after.workExperience]

CallValidateEducationTimeline ==
  /\ call.op = "none"
  /\ \E context \in FrameContexts :
       /\ call' = [op |-> "validateEducationTimeline", input |-> context,
                   faults |-> {}]
       /\ result' = validateEducationTimeline(context.educationPeriods, now,
                                              context.config)
       /\ trace' = Left(AfterValidateEducationTimeline(context))
  /\ UNCHANGED << config, now, nUpdates, manager, lastIndex, returned,
                  persistence, logger, suggestionGenerator >>

CallValidateWorkTimeline ==
  /\ call.op = "none"
  /\ \E context \in FrameContexts :
       /\ call' = [op |-> "validateWorkTimeline", input |-> context,
                   faults |-> {}]
       /\ result' = validateWorkTimeline(context.workExperience, now,
                                         context.config)
       /\ trace' = Left(AfterValidateWorkTimeline(context))
  /\ UNCHANGED << config, now, nUpdates, manager, lastIndex, returned,
                  persistence, logger, suggestionGenerator >>

CallApplyValidationRules ==
  /\ call.op = "none"
  /\ \E context \in FrameContexts :
       /\ call' = [op |-> "applyValidationRules", input |-> context,
                   faults |-> {}]
       /\ result' = applyValidationRules(context, now)
       /\ trace' = Left(AfterApplyValidationRules(context))
  /\ UNCHANGED << config, now, nUpdates, manager, lastIndex, returned,
                  persistence, logger, suggestionGenerator >>

\* generateSuggestions on the issues the validators and the rules report
CallGenerateSuggestions ==
  /\ call.op = "none"
  /\ \E context \in FrameContexts :
       \E allIssues \in
            {validateEducationTimeline(context.educationPeriods, now,
                                       context.config)
             \o validateWorkTimeline(context.workExperience, now,
                                     context.config)
             \o applyValidationRules(context, now)} :
         /\ call' = [op |-> "generateSuggestions", input |-> context,
                     faults |-> {}]
         /\ result' = generateSuggestions(suggestionGenerator, context,
                                          allIssues, now)
         /\ trace' = Left(AfterGenerateSuggestions(context))
  /\ UNCHANGED << config, now, nUpdates, manager, lastIndex, returned,
                  persistence, logger, suggestionGenerator >>

NextFrame ==
  \/ CallValidateEducationTimeline
  \/ CallValidateWorkTimeline
  \/ CallApplyValidationRules
  \/ CallGenerateSuggestions

SpecFrame == Init /\ [][NextFrame]_vars

(***************************************************************************)
(* The period builder's determineDateRange on the dates of one block.      *)
(***************************************************************************)
\* the dates of a block at most
MaxDates == 3

\* what parseDate made of an extracted date: nothing, an ongoing marker, or
\* one of three dates
BlockDates ==
  {ExtractedDate(<< W("present") >>, 0, 7,
                 Parsed(now, PRESENT, TRUE, EXACT_MATCH)),
   ExtractedDate(<< Year(2040) >>, 0, 4, NoParse)}
  \cup {ExtractedDate(<< Year(y) >>, 0, 4,
                      Parsed(MkDate(y, 1, 1), YEAR_ONLY, FALSE, PATTERN_MATCH)) :
          y \in {2016, 2018, 2022}}

DetermineDateRange ==
  /\ call.op = "none"
  /\ \E extractedDates \in UNION {[1..n -> BlockDates] : n \in 0..MaxDates} :
       /\ call' = [op |-> "determineDateRange", input |-> extractedDates,
                   faults |-> {}]
       /\ result' = determineDateRange(extractedDates)
  /\ UNCHANGED << config, now, nUpdates, trace, manager, lastIndex, returned,
                  persistence, logger, suggestionGenerator >>

NextRange == DetermineDateRange

SpecRange == Init /\ [][NextRange]_vars

(***************************************************************************)
(* The period builder on its own: parseEducationDates and                  *)
(* parseWorkExperience on texts of a header, a name and a line of dates.   *)
(***************************************************************************)
\* "1949": a year below the years isValidYear accepts
LineTooEarly == << Year(1949) >>
\* "2036": a year isValidYear accepts at one clock date and not the other
LineBoundaryYear == << Year(2036) >>
\* "Present"
LinePresent == << W("present") >>

\* the lines a block is built from
BlockLines ==
  {LineUniversity, LineAcme, LineRange, LineMonths, LineOngoing,
   LineFullDate, LineMalformed, LineTooEarly, LineBoundaryYear, LinePresent}

\* a section header followed by one or two lines
BlockTexts ==
  {<< h, a >> : h \in {HeaderEducation, HeaderWork}, a \in BlockLines}
  \cup {<< h, a, b >> : h \in {HeaderEducation, HeaderWork},
                        a \in {LineUniversity, LineAcme}, b \in BlockLines}

ParseEducationDates ==
  /\ call.op = "none"
  /\ \E text \in BlockTexts :
       /\ call' = [op |-> "parseEducationDates", input |-> text,
                   faults |-> {}]
       /\ result' = parseEducationDates(text, now)
  /\ UNCHANGED << config, now, nUpdates, trace, manager, lastIndex, returned,
                  persistence, logger, suggestionGenerator >>

ParseWorkExperience ==
  /\ call.op = "none"
  /\ \E text \in BlockTexts :
       /\ call' = [op |-> "parseWorkExperience", input |-> text,
                   faults |-> {}]
       /\ result' = parseWorkExperience(text, now)
  /\ UNCHANGED << config, now, nUpdates, trace, manager, lastIndex, returned,
                  persistence, logger, suggestionGenerator >>

NextSections == ParseEducationDates \/ ParseWorkExperience

SpecSections == Init /\ [][NextSections]_vars

(***************************************************************************)
(* The loops of extractDatesFromText step by step, on long texts: a date   *)
(* repeated on line after line.  A step is one regex.exec of the while     *)
(* condition with the loop body that follows a match.                      *)
(***************************************************************************)
\* what is repeated, one for each pattern of extractDatesFromText:
\* "May 2020", "1/15/2020", "2020", "present" and "2018 - 2022"
RepeatedDates ==
  [month_year |-> << Mon(5), Year(2020) >>,
   full_date  |-> << Num(1, 1), Slash, Num(15, 2), Slash, Year(2020) >>,
   year_only  |-> << Year(2020) >>,
   present    |-> << W("present") >>,
   date_range |-> << Year(2018), Dash, Year(2022) >>]

\* the numbers of lines: short texts, and texts around the limit of the loop
Repetitions == {1, 2, MaxMatches, MaxMatches + 1, MaxMatches + 2}

\* the text of n lines
LongText(type, n) == [k \in 1..n |-> RepeatedDates[type]]

\* Flat(LongText(type, n)): token j is token r of line q + 1
LongFlat(type, n) ==
  [j \in 1..(n * Len(RepeatedDates[type])) |->
     LET q == (j - 1) \div Len(RepeatedDates[type])
         r == ((j - 1) % Len(RepeatedDates[type])) + 1
     IN  [tok   |-> RepeatedDates[type][r],
          start |-> q * (LineLen(RepeatedDates[type]) + 1)
                    + TokOffset(RepeatedDates[type], r),
          line  |-> q + 1,
          first |-> (r = 1)]]

\* the loops before the first pattern is run: the pattern, the token
\* regex.exec searches from, the matches counted and the dates pushed
LoopStart ==
  [patternIndex |-> 1, lastIndex |-> 1, matchCount |-> 0,
   extractedDates |-> << >>]

\* the while loop of a pattern is left
NextPattern(st) ==
  [st EXCEPT !.patternIndex = @ + 1, !.lastIndex = 1, !.matchCount = 0]

\* regex.exec(text) from lastIndex on: no match ends the loop; a match is
\* counted and processed, and the loop is left when matchCount > 200
RegExpExec(flat, st, clock) ==
  LET type == PatternTypes[st.patternIndex]
      Hit(i) == MatchLen(flat, i, type) > 0
  IN  IF ~ \E i \in st.lastIndex..Len(flat) : Hit(i)
      THEN NextPattern(st)
      ELSE
        Bind(CHOOSE i \in st.lastIndex..Len(flat) :
               Hit(i) /\ \A j \in st.lastIndex..(i - 1) : ~Hit(j),
          LAMBDA i :
            Bind([st EXCEPT
                    !.lastIndex = AfterMatch(flat, i, type),
                    !.matchCount = @ + 1,
                    !.extractedDates =
                      @ \o (IF type = "date_range"
                            THEN extractDateRange(flat, i, clock)
                            ELSE << ExtractedDate(
                                      TokSeq(flat, i, MatchLen(flat, i, type)),
                                      flat[i].start,
                                      EndOf(flat, i + MatchLen(flat, i, type) - 1),
                                      parseDate(TokSeq(flat, i,
                                                  MatchLen(flat, i, type)),
                                                clock)) >>)],
              LAMBDA after :
                IF after.matchCount > MaxMatches THEN NextPattern(after)
                ELSE after))

StartExtraction ==
  /\ call.op = "none"
  /\ \E type \in DOMAIN RepeatedDates, n \in Repetitions :
       call' = [op |-> "extractDatesFromText",
                input |-> [type |-> type, n |-> n], faults |-> {}]
  /\ result' = [loop |-> LoopStart, returned |-> FALSE, finalDates |-> << >>]
  /\ UNCHANGED << config, now, nUpdates, trace, manager, lastIndex, returned,
                  persistence, logger, suggestionGenerator >>

RegExpExecStep ==
  /\ call.op = "extractDatesFromText"
  /\ ~result.returned
  /\ result.loop.patternIndex <= Len(PatternTypes)
  /\ result' =
       [result EXCEPT
          !.loop = RegExpExec(LongFlat(call.input.type, call.input.n), @, now)]
  /\ UNCHANGED << config, now, nUpdates, call, trace, manager, lastIndex,
                  returned, persistence, logger, suggestionGenerator >>

ReturnFinalDates ==
  /\ call.op = "extractDatesFromText"
  /\ ~result.returned
  /\ result.loop.patternIndex > Len(PatternTypes)
  /\ result' =
       [result EXCEPT
          !.returned = TRUE,
          !.finalDates = deduplicateAndSort(result.loop.extractedDates)]
  /\ UNCHANGED << config, now, nUpdates, call, trace, manager, lastIndex,
                  returned, persistence, logger, suggestionGenerator >>

NextLoops == StartExtraction \/ RegExpExecStep \/ ReturnFinalDates

SpecLoops == Init /\ [][NextLoops]_vars

(***************************************************************************)
(* The suggestion generator on the issues of one period: as the service    *)
(* does, generateSuggestions is given the issues of the two validators     *)
(* and of the rules.                                                       *)
(***************************************************************************)
\* the degree lines of an education period
Degrees ==
  {NoLine, << W("bachelor") >>, << W("master") >>, << W("phd") >>,
   << W("certificate") >>}

\* the dates of the period
SuggestionDates ==
  {NoDate, MkDate(2018, 1, 1), MkDate(2022, 5, 1), MkDate(2024, 1, 1),
   MkDate(2033, 6, 1)}

\* "M/D/YYYY - M/D/YYYY"
LineOfDates(a, b) ==
  << Num(a.m, Digits(a.m)), Slash, Num(a.d, Digits(a.d)), Slash, Year(a.y),
     Dash,
     Num(b.m, Digits(b.m)), Slash, Num(b.d, Digits(b.d)), Slash, Year(b.y) >>

\* the text of a period: its name, or its name and its two dates written
\* as toLocaleDateString writes them
PeriodTexts(name, s, e) ==
  {<< name >>}
  \cup (IF s # NoDate /\ e # NoDate THEN {<< name, LineOfDates(s, e) >>}
        ELSE {})

\* the contexts of one education period or one work period; currentDate
\* is what the caller wrote into the context, the time of the call or not
SuggestionContexts ==
  {[educationPeriods |->
      << [institution |-> LineUniversity, degree |-> g, startDate |-> s,
          endDate |-> e, isOngoing |-> FALSE, originalText |-> t,
          confidence |-> Double(90000)] >>,
    workExperience |-> << >>, currentDate |-> c, config |-> config] :
     g \in Degrees,
     s \in SuggestionDates, e \in SuggestionDates,
     t \in {<< LineUniversity >>}, c \in NowSet}
  \cup
  UNION {{[educationPeriods |-> << >>,
           workExperience |->
             << [company |-> LineAcme, position |-> UnknownPosition,
                 startDate |-> s, endDate |-> e, isOngoing |-> FALSE,
                 originalText |-> t, confidence |-> Double(90000)] >>,
           currentDate |-> c, config |-> config] :
            t \in PeriodTexts(LineAcme, s, e), c \in NowSet} :
           s \in SuggestionDates, e \in SuggestionDates}
  \cup
  UNION {{[educationPeriods |->
             << [institution |-> LineUniversity, degree |-> NoLine,
                 startDate |-> s, endDate |-> e, isOngoing |-> FALSE,
                 originalText |-> t, confidence |-> Double(90000)] >>,
           workExperience |-> << >>, currentDate |-> c,
           config |-> config] :
            t \in PeriodTexts(LineUniversity, s, e), c \in NowSet} :
           s \in SuggestionDates, e \in SuggestionDates}

GenerateSuggestions ==
  /\ call.op = "none"
  /\ \E context \in SuggestionContexts :
       \E allIssues \in
            {validateEducationTimeline(context.educationPeriods, now,
                                       context.config)
             \o validateWorkTimeline(context.workExperience, now,
                                     context.config)
             \o applyValidationRules(context, now)} :
         /\ call' = [op |-> "generateSuggestions", input |-> context,
                     faults |-> {}]
         /\ result' = generateSuggestions(suggestionGenerator, context,
                                          allIssues, now)
         /\ trace' = [NoTrace EXCEPT !.allIssues = allIssues]
  /\ UNCHANGED << config, now, nUpdates, manager, lastIndex, returned,
                  persistence, logger, suggestionGenerator >>

NextSuggestions == UpdateConfigSync \/ TimePasses \/ GenerateSuggestions

SpecSuggestions == Init /\ [][NextSuggestions]_vars

(***************************************************************************)
(* The persistence manager under concurrent calls: a call runs to its      *)
(* await, the KV store serves the request, and the call resumes later;     *)
(* other calls and the clock move in between.                              *)
(***************************************************************************)

\* the persistence manager in front of any of the stored values
InitStored ==
  /\ InitService
  /\ persistence \in {NewPersistence(stored) : stored \in StoredValues}
  /\ logger = NewLogger
  /\ suggestionGenerator = DateSuggestionGenerator(now)

\* everything but the persistence manager
Service ==
  << config, now, nUpdates, call, result, trace, manager, lastIndex, returned,
     logger, suggestionGenerator >>

LoadConfig ==
  /\ Len(persistence.calls) < MaxCalls
  /\ persistence' = loadConfig(persistence)
  /\ UNCHANGED Service

SaveConfig ==
  /\ Len(persistence.calls) < MaxCalls
  /\ \E cfg \in SavedConfigs : persistence' = saveConfig(persistence, cfg)
  /\ UNCHANGED Service

DeleteConfig ==
  /\ Len(persistence.calls) < MaxCalls
  /\ persistence' = deleteConfig(persistence)
  /\ UNCHANGED Service

KvGet ==
  /\ \E i \in 1..Len(persistence.calls), rejects \in BOOLEAN :
       /\ persistence.calls[i].pc = "kv.get"
       /\ persistence' = kvGet(persistence, i, rejects)
  /\ UNCHANGED Service

KvSet ==
  /\ \E i \in 1..Len(persistence.calls), success \in BOOLEAN :
       /\ persistence.calls[i].pc = "kv.set"
       /\ persistence' = kvSet(persistence, i, success)
  /\ UNCHANGED Service

KvDelete ==
  /\ \E i \in 1..Len(persistence.calls), success \in BOOLEAN :
       /\ persistence.calls[i].pc = "kv.delete"
       /\ persistence' = kvDelete(persistence, i, success)
  /\ UNCHANGED Service

LoadConfigResumes ==
  /\ \E i \in 1..Len(persistence.calls) :
       /\ persistence.calls[i].pc = "got"
       /\ persistence' = loadConfigResumes(persistence, i)
  /\ UNCHANGED Service

SaveConfigResumes ==
  /\ \E i \in 1..Len(persistence.calls) :
       /\ persistence.calls[i].pc = "set"
       /\ persistence' = saveConfigResumes(persistence, i)
  /\ UNCHANGED Service

DeleteConfigResumes ==
  /\ \E i \in 1..Len(persistence.calls) :
       /\ persistence.calls[i].pc = "deleted"
       /\ persistence' = deleteConfigResumes(persistence, i)
  /\ UNCHANGED Service

LoadConfigReturns ==
  /\ \E i \in 1..Len(persistence.calls) :
       /\ persistence.calls[i].pc = "saved"
       /\ persistence' = loadConfigReturns(persistence, i)
  /\ UNCHANGED Service

ClearCache ==
  /\ persistence' = clearCache(persistence)
  /\ UNCHANGED Service

\* Date.now() moves on by a minute
Tick ==
  /\ persistence.time < MaxTime
  /\ persistence' = [persistence EXCEPT !.time = @ + 1]
  /\ UNCHANGED Service

NextPersistence ==
  \/ LoadConfig
  \/ SaveConfig
  \/ DeleteConfig
  \/ KvGet
  \/ KvSet
  \/ KvDelete
  \/ LoadConfigResumes
  \/ SaveConfigResumes
  \/ DeleteConfigResumes
  \/ LoadConfigReturns
  \/ ClearCache
  \/ Tick

SpecPersistence == InitStored /\ [][NextPersistence]_vars

(***************************************************************************)
(* The configuration manager on its own, called by an untyped caller, in   *)
(* front of the persistence manager of the module and its KV store.        *)
(***************************************************************************)
\* the calls of updateConfig, resetToDefaults, initialize and
\* reloadFromStorage that await the persistence manager
MaxSaving == 1

\* the updates and custom configurations given to the manager
PartialConfigs ==
  {[maxFutureEducationYears |-> JsNumber(0)],
   [maxFutureEducationYears |-> JsNumber(10)],
   [maxFutureEducationYears |-> JsNumber(11)],
   [maxFutureEducationYears |-> JsNumber(0 - 1)],
   [maxFutureEducationYears |-> JsNaN],
   [maxFutureEducationYears |-> JsString("5")],
   [maxFutureWorkMonths |-> JsNumber(12)],
   [maxFutureWorkMonths |-> JsNumber(13)],
   [confidenceThreshold |-> JsNumber(100001)],
   [confidenceThreshold |-> JsUndefined],
   [strictMode |-> JsBoolean(TRUE)],
   [strictMode |-> JsNumber(1)],
   [enableTypoDetection |-> JsString("false")],
   [maxFutureEducationYears |-> JsNumber(10),
    maxFutureWorkMonths |-> JsNumber(13)]}

\* what a call of the manager did: whether it threw (or its promise was
\* rejected)
Outcome(threw) == [error |-> threw]

\* a call of the manager that is suspended at its await of call i of the
\* persistence manager
Awaiting(op, i) == [op |-> op, call |-> i]

\* new DateValidationConfigManager(customConfig)
Construct ==
  /\ \E customConfig \in PartialConfigs :
       \E made \in {Merge(JsConfig(DEFAULT_VALIDATION_CONFIG), customConfig)} :
         /\ call' = [op |-> "constructor", input |-> customConfig,
                     faults |-> {}]
         /\ IF validateConfig(made)
            THEN /\ manager' = [NewManager EXCEPT !.config = made]
                 /\ result' = Outcome(FALSE)
            ELSE /\ manager' = manager
                 /\ result' = Outcome(TRUE)
  /\ UNCHANGED << config, now, nUpdates, trace, lastIndex, returned,
                  persistence, logger, suggestionGenerator >>

\* updateConfig(updates) up to its await of saveConfig: the merged
\* configuration is validated, and rolled back when that fails, before
\* saveConfig is called
UpdateConfig ==
  /\ \E updates \in PartialConfigs :
       \E merged \in {Merge(manager.config, updates)} :
         /\ call' = [op |-> "updateConfig", input |-> updates, faults |-> {}]
         /\ IF validateConfig(merged)
            THEN /\ Len(persistence.calls) < MaxSaving
                 /\ persistence' = saveConfig(persistence, merged)
                 /\ manager' =
                      [manager EXCEPT
                         !.config = merged,
                         !.saving =
                           Append(@, Awaiting("updateConfig",
                                              Len(persistence.calls) + 1))]
                 /\ result' = Outcome(FALSE)
            ELSE /\ manager' = manager
                 /\ persistence' = persistence
                 /\ result' = Outcome(TRUE)
  /\ UNCHANGED << config, now, nUpdates, trace, lastIndex, returned, logger,
                  suggestionGenerator >>

\* updateConfigSync(updates) of the manager
ManagerUpdateConfigSync ==
  /\ \E updates \in PartialConfigs :
       \E merged \in {Merge(manager.config, updates)} :
         /\ call' = [op |-> "updateConfigSync", input |-> updates,
                     faults |-> {}]
         /\ IF validateConfig(merged)
            THEN /\ manager' = [manager EXCEPT !.config = merged]
                 /\ result' = Outcome(FALSE)
            ELSE /\ manager' = manager
                 /\ result' = Outcome(TRUE)
  /\ UNCHANGED << config, now, nUpdates, trace, lastIndex, returned,
                  persistence, logger, suggestionGenerator >>

\* resetToDefaults() up to its await of saveConfig
ResetToDefaults ==
  /\ Len(persistence.calls) < MaxSaving
  /\ call' = [op |-> "resetToDefaults", input |-> << >>, faults |-> {}]
  /\ persistence' = saveConfig(persistence,
                               JsConfig(DEFAULT_VALIDATION_CONFIG))
  /\ manager' =
       [manager EXCEPT
          !.config = JsConfig(DEFAULT_VALIDATION_CONFIG),
          !.saving = Append(@, Awaiting("resetToDefaults",
                                        Len(persistence.calls) + 1))]
  /\ result' = Outcome(FALSE)
  /\ UNCHANGED << config, now, nUpdates, trace, lastIndex, returned, logger,
                  suggestionGenerator >>

ResetToDefaultsSync ==
  /\ call' = [op |-> "resetToDefaultsSync", input |-> << >>, faults |-> {}]
  /\ manager' = [manager EXCEPT !.config = JsConfig(DEFAULT_VALIDATION_CONFIG)]
  /\ result' = Outcome(FALSE)
  /\ UNCHANGED << config, now, nUpdates, trace, lastIndex, returned,
                  persistence, logger, suggestionGenerator >>

\* initialize() up to its await of loadConfig; it returns at once when the
\* manager is initialized
Initialize ==
  /\ call' = [op |-> "initialize", input |-> << >>, faults |-> {}]
  /\ result' = Outcome(FALSE)
  /\ IF manager.isInitialized
     THEN /\ manager' = manager
          /\ persistence' = persistence
     ELSE /\ Len(persistence.calls) < MaxSaving
          /\ persistence' = loadConfig(persistence)
          /\ manager' =
               [manager EXCEPT
                  !.saving = Append(@, Awaiting("initialize",
                                                Len(persistence.calls) + 1))]
  /\ UNCHANGED << config, now, nUpdates, trace, lastIndex, returned, logger,
                  suggestionGenerator >>

\* reloadFromStorage() up to its await of loadConfig: the cache is cleared
\* first
ReloadFromStorage ==
  /\ Len(persistence.calls) < MaxSaving
  /\ call' = [op |-> "reloadFromStorage", input |-> << >>, faults |-> {}]
  /\ result' = Outcome(FALSE)
  /\ persistence' = loadConfig(clearCache(persistence))
  /\ manager' =
       [manager EXCEPT
          !.saving = Append(@, Awaiting("reloadFromStorage",
                                        Len(persistence.calls) + 1))]
  /\ UNCHANGED << config, now, nUpdates, trace, lastIndex, returned, logger,
                  suggestionGenerator >>

\* a sequence without its k-th element
Without(seq, k) == SubSeq(seq, 1, k - 1) \o SubSeq(seq, k + 1, Len(seq))

\* saveConfig has returned to one of the waiting calls of updateConfig or
\* resetToDefaults: saveConfig catches every failure and returns false, so
\* the call goes on after the await and keeps the configuration
SaveConfigSettles ==
  /\ \E k \in 1..Len(manager.saving) :
       /\ manager.saving[k].op \in {"updateConfig", "resetToDefaults"}
       /\ persistence.calls[manager.saving[k].call].pc = "returned"
       /\ call' = [op |-> "saveConfig", input |-> manager.saving[k].op,
                   faults |-> {}]
       /\ manager' = [manager EXCEPT !.saving = Without(@, k)]
       /\ result' = Outcome(FALSE)
  /\ UNCHANGED << config, now, nUpdates, trace, lastIndex, returned,
                  persistence, logger, suggestionGenerator >>

\* loadConfig has returned to one of the waiting calls of initialize or
\* reloadFromStorage: the configuration is assigned and then validated;
\* initialize falls back to the defaults when that fails, reloadFromStorage
\* throws the error on
LoadConfigSettles ==
  /\ \E k \in 1..Len(manager.saving) :
       /\ manager.saving[k].op \in {"initialize", "reloadFromStorage"}
       /\ persistence.calls[manager.saving[k].call].pc = "returned"
       /\ \E storedConfig \in {persistence.calls[manager.saving[k].call].ret} :
            /\ call' = [op |-> "loadConfig", input |-> manager.saving[k].op,
                        faults |-> {}]
            /\ IF manager.saving[k].op = "initialize"
               THEN /\ manager' =
                         [config |-> IF validateConfig(storedConfig)
                                     THEN storedConfig
                                     ELSE JsConfig(DEFAULT_VALIDATION_CONFIG),
                          isInitialized |-> TRUE,
                          saving |-> Without(manager.saving, k)]
                    /\ result' = Outcome(FALSE)
               ELSE /\ manager' =
                         [manager EXCEPT !.config = storedConfig,
                                         !.saving = Without(@, k)]
                    /\ result' = Outcome(~validateConfig(storedConfig))
  /\ UNCHANGED << config, now, nUpdates, trace, lastIndex, returned,
                  persistence, logger, suggestionGenerator >>

NextConfig ==
  \/ Construct
  \/ UpdateConfig
  \/ ManagerUpdateConfigSync
  \/ ResetToDefaults
  \/ ResetToDefaultsSync
  \/ Initialize
  \/ ReloadFromStorage
  \/ KvGet
  \/ KvSet
  \/ LoadConfigResumes
  \/ SaveConfigResumes
  \/ LoadConfigReturns
  \/ SaveConfigSettles
  \/ LoadConfigSettles

\* the manager is constructed in front of a store that holds nothing or a
\* valid configuration
InitConfig ==
  /\ InitService
  /\ now = At(MkDate(2026, 10, 29), 12)
  /\ persistence
       \in {NewPersistence(stored) :
              stored \in {NoData,
                          Stored(JsConfig(Merge(DEFAULT_VALIDATION_CONFIG,
                                   [maxFutureEducationYears |-> 2])))}}
  /\ logger = NewLogger
  /\ suggestionGenerator = DateSuggestionGenerator(now)

SpecConfig == InitConfig /\ [][NextConfig]_vars

(***************************************************************************)
(* The logger under the calls of its users: a logger that is new or has    *)
(* been in use up to its limits, and a few more calls on it.               *)
(***************************************************************************)
\* the number of calls followed on one logger
MaxLogCalls == 3

\* the loggers at the start: a new one, one that is one entry short of each
\* limit, and one that is at the limit of each array
Loggers ==
  {NewLogger,
   UsedLogger(maxPerformanceEntries - 1, maxEdgeCases - 1,
              maxLogEntries - maxPerformanceEntries - maxEdgeCases - 2),
   UsedLogger(maxPerformanceEntries, maxEdgeCases,
              maxLogEntries - maxPerformanceEntries - maxEdgeCases - 3)}

InitLogger ==
  /\ InitService
  /\ now = At(MkDate(2026, 10, 29), 12)
  /\ persistence = NewPersistence(NoData)
  /\ logger \in Loggers
  /\ suggestionGenerator = DateSuggestionGenerator(now)

\* the calls of validateResumeDates made on these loggers: the input, the
\* calls that fail and the operations that take long
LoggedRun(resumeText, faults, slow) ==
  [resumeText |-> resumeText, faults |-> faults, slow |-> slow]

LoggedRuns ==
  {LoggedRun(Input("null", << >>), {}, {}),
   LoggedRun(Input("null", << >>), {"start_validate_resume_dates"}, {}),
   LoggedRun(Input("blank", << >>), {}, {}),
   LoggedRun(Input("text", << HeaderEducation, LineUniversity,
                              LineFarFuture >>), {}, OuterEnds),
   LoggedRun(Input("text", << HeaderEducation, LineUniversity,
                              LineFarFuture >>), {"logValidationResults"},
             {"end_validate_resume_dates_failed"}),
   LoggedRun(Input("text", << HeaderEducation, LineUniversity,
                              LineFarFuture >>),
             {"education_validation_completed"},
             {"end_validate_education_timeline_failed"} \cup OuterEnds)}
  \cup {LoggedRun(Input("text", << HeaderEducation, LineUniversity,
                                   LineFarFuture >>), faults, {}) :
          faults \in {{}, {"validateWorkTimeline"},
                      {"logEdgeCasesFromResults"}, {"logValidationResults"}}}

\* what validateResumeDates does in each of these calls on a service with
\* the configuration, the clock and the suggestion generator of InitLogger
LoggedRunsMade ==
  [r \in LoggedRuns |->
     validateResumeDates(r.resumeText, r.faults, DEFAULT_VALIDATION_CONFIG,
                         At(MkDate(2026, 10, 29), 12),
                         DateSuggestionGenerator(At(MkDate(2026, 10, 29),
                                                    12)))]

Log ==
  /\ logger.calls < MaxLogCalls
  /\ \E operation \in {"validation_started", "date_parsed"} :
       /\ logger' = Called(log(logger, "info", "validation", operation,
                               "none"))
       /\ call' = [op |-> "log", input |-> operation, faults |-> {}]
  /\ UNCHANGED << config, now, nUpdates, result, trace, manager, lastIndex,
                  returned, persistence, suggestionGenerator >>

StartPerformanceMonitoring ==
  /\ logger.calls < MaxLogCalls
  /\ logger' = Called(startPerformanceMonitoring(logger, "parse_date"))
  /\ call' = [op |-> "startPerformanceMonitoring", input |-> "parse_date",
              faults |-> {}]
  /\ result' = logger.pushedMetrics + 1
  /\ UNCHANGED << config, now, nUpdates, trace, manager, lastIndex, returned,
                  persistence, suggestionGenerator >>

\* endPerformanceMonitoring of the first operation that was started, or of
\* the last one, after 200 or 1500 milliseconds
EndPerformanceMonitoring ==
  /\ logger.calls < MaxLogCalls
  /\ \E operationId \in {1, logger.pushedMetrics}, duration \in {200, 1500} :
       /\ logger' = Called(endPerformanceMonitoring(logger, operationId,
                                                    duration, "none"))
       /\ call' = [op |-> "endPerformanceMonitoring",
                   input |-> operationId, faults |-> {}]
  /\ UNCHANGED << config, now, nUpdates, result, trace, manager, lastIndex,
                  returned, persistence, suggestionGenerator >>

SetDebugMode ==
  /\ logger.calls < MaxLogCalls
  /\ \E enabled \in BOOLEAN :
       /\ logger' = Called(setDebugMode(logger, enabled))
       /\ call' = [op |-> "setDebugMode", input |-> enabled, faults |-> {}]
  /\ UNCHANGED << config, now, nUpdates, result, trace, manager, lastIndex,
                  returned, persistence, suggestionGenerator >>

SetPerformanceThreshold ==
  /\ logger.calls < MaxLogCalls
  /\ \E thresholdMs \in {100} :
       /\ logger' = Called(setPerformanceThreshold(logger, thresholdMs))
       /\ call' = [op |-> "setPerformanceThreshold", input |-> thresholdMs,
                   faults |-> {}]
  /\ UNCHANGED << config, now, nUpdates, result, trace, manager, lastIndex,
                  returned, persistence, suggestionGenerator >>

LogEdgeCase ==
  /\ logger.calls < MaxLogCalls
  /\ logger' = Called(logEdgeCase(logger, "missing_date"))
  /\ call' = [op |-> "logEdgeCase", input |-> "missing_date", faults |-> {}]
  /\ UNCHANGED << config, now, nUpdates, result, trace, manager, lastIndex,
                  returned, persistence, suggestionGenerator >>

ClearLogs ==
  /\ logger.calls < MaxLogCalls
  /\ logger' = Called(clearLogs(logger))
  /\ call' = [op |-> "clearLogs", input |-> << >>, faults |-> {}]
  /\ UNCHANGED << config, now, nUpdates, result, trace, manager, lastIndex,
                  returned, persistence, suggestionGenerator >>

\* logger.logValidationResults(...) called by itself
LogValidationResults ==
  /\ logger.calls < MaxLogCalls
  /\ \E success \in {"true", "false"} :
       /\ logger' = Called(logValidationResults(logger, success))
       /\ call' = [op |-> "logValidationResults", input |-> success,
                   faults |-> {}]
  /\ UNCHANGED << config, now, nUpdates, result, trace, manager, lastIndex,
                  returned, persistence, suggestionGenerator >>

\* logger.debugWithTiming(operation, fn): fn returns a value or throws,
\* after 200 or 1500 milliseconds
DebugWithTiming ==
  /\ logger.calls < MaxLogCalls
  /\ \E operation \in {"parse_date", "parse_resume"}, throws \in BOOLEAN,
        duration \in {200, 1500} :
       /\ logger' = Called(debugWithTiming(logger, operation, throws,
                                           duration))
       /\ call' = [op |-> "debugWithTiming", input |-> operation,
                   faults |-> {}]
       /\ result' = IF throws THEN Exception ELSE [value |-> 1]
  /\ UNCHANGED << config, now, nUpdates, trace, manager, lastIndex, returned,
                  persistence, suggestionGenerator >>

\* one more service is constructed, new ResumeDateValidationService(config):
\* its constructor writes to the logger that the services share
NewService ==
  /\ logger.calls < MaxLogCalls
  /\ logger' = Called(ResumeDateValidationService(logger))
  /\ call' = [op |-> "new ResumeDateValidationService", input |-> << >>,
              faults |-> {}]
  /\ UNCHANGED << config, now, nUpdates, result, trace, manager, lastIndex,
                  returned, persistence, suggestionGenerator >>

\* validateResumeDates(resumeText) on a logger that has been in use, by the
\* service as InitLogger leaves it: NextLogger changes neither its
\* configuration nor the clock
ValidateResumeDatesLogged ==
  /\ logger.calls < MaxLogCalls
  /\ config = DEFAULT_VALIDATION_CONFIG
  /\ now = At(MkDate(2026, 10, 29), 12)
  /\ suggestionGenerator = DateSuggestionGenerator(now)
  /\ \E r \in LoggedRuns :
       \E run \in {LoggedRunsMade[r]} :
         /\ call' = [op |-> "validateResumeDates", input |-> r.resumeText,
                     faults |-> r.faults]
         /\ result' = run.result
         /\ trace' = run.trace
         /\ logger' = Called(LoggedValidation(logger, run, r.faults, r.slow))
  /\ UNCHANGED << config, now, nUpdates, manager, lastIndex, returned,
                  persistence, suggestionGenerator >>

NextLogger ==
  \/ Log
  \/ StartPerformanceMonitoring
  \/ EndPerformanceMonitoring
  \/ LogEdgeCase
  \/ ClearLogs
  \/ SetDebugMode
  \/ SetPerformanceThreshold
  \/ LogValidationResults
  \/ DebugWithTiming
  \/ NewService
  \/ ValidateResumeDatesLogged

SpecLogger == InitLogger /\ [][NextLogger]_vars

(***************************************************************************)
(* The work validator on a work history of up to three positions, some of  *)
(* them held at the same time.                                             *)
(***************************************************************************)
\* the number of positions in a work history
MaxPositions == 3

HistoryStarts == {MkDate(2018, 1, 1), MkDate(2020, 1, 1), MkDate(2022, 5, 1)}

HistoryEnds ==
  {NoDate, MkDate(2020, 1, 1), MkDate(2022, 5, 1), MkDate(2031, 6, 1)}

\* a position has ended, or is ongoing and has no end date
Positions ==
  {[company |-> LineAcme, position |-> UnknownPosition, startDate |-> s,
    endDate |-> e, isOngoing |-> FALSE, originalText |-> << LineAcme >>,
    confidence |-> Double(90000)] : s \in HistoryStarts, e \in HistoryEnds}
  \cup
  {[company |-> LineAcme, position |-> UnknownPosition, startDate |-> s,
    endDate |-> NoDate, isOngoing |-> TRUE, originalText |-> << LineAcme >>,
    confidence |-> Double(90000)] : s \in HistoryStarts}

WorkHistories == UNION {[1..n -> Positions] : n \in 0..MaxPositions}

ValidateWorkHistory ==
  /\ call.op = "none"
  /\ \E work \in WorkHistories :
       /\ call' = [op |-> "validateWorkTimeline", input |-> work,
                   faults |-> {}]
       /\ result' = validateWorkTimeline(work, now, config)
  /\ UNCHANGED << manager, lastIndex, returned, config, now, nUpdates, trace,
                  persistence, logger, suggestionGenerator >>

NextHistory == ValidateWorkHistory

SpecHistory == Init /\ [][NextHistory]_vars

(***************************************************************************)
(* Properties of validateResumeDates.                                      *)
(***************************************************************************)
\* the last step was a call of validateResumeDates, which returned result
\* validateResumeDates was called
WasCalled == call.op = "validateResumeDates"

\* the call has returned a result
Returned == WasCalled /\ ~trace.thrown

NoCritical(issues) ==
  \A k \in 1..Len(issues) : issues[k].type # "critical"

IsEmptyResult(r) ==
  /\ r.isValid
  /\ r.issues = << >>
  /\ r.suggestions = << >>
  /\ Len(r.warnings) = 1

WellFormed(r) ==
  /\ DOMAIN r = {"isValid", "issues", "warnings", "suggestions"}
  /\ r.isValid \in BOOLEAN
  /\ \A k \in 1..Len(r.issues) :
       /\ r.issues[k].type \in {"critical", "warning", "suggestion"}
       /\ r.issues[k].category \in {"education", "work", "general"}
  /\ \A k \in 1..Len(r.warnings) :
       /\ DOMAIN r.warnings[k] = {"category", "message", "context"}
       /\ r.warnings[k].category \in {"education", "work", "general"}
  /\ \A k \in 1..Len(r.suggestions) :
       DOMAIN r.suggestions[k]
         = {"originalDate", "suggestedDate", "reason", "confidence"}

\* the warning categorizeIssuesBySeverity makes of an issue
WarningOf(issue) ==
  ValidationWarning(issue.category, issue.message, issue.detectedDate)

\* C1: in every result validateResumeDates returns, on the normal path, for
\* rejected input and in degraded or failed runs alike, isValid is true
\* exactly when result.issues holds no issue of type critical; the entries
\* of result.warnings have no part in it.
C1_IsValidIffNoCritical ==
  Returned => (result.isValid <=> NoCritical(result.issues))

\* a degraded run that returned warnings and is not valid, and whose
\* critical issues include one that was made a warning
C1_Witness ==
  /\ Returned
  /\ ~result.isValid
  /\ call.faults # {}
  /\ Len(result.warnings) >= 2
  /\ \E k \in 1..Len(trace.allIssues) :
       IsLowConfidenceCritical(trace.allIssues[k], config)

\* the reclassification ran to its end and the result was left by the
\* return statement of the try block
Reclassified ==
  /\ Returned
  /\ trace.path = "completed"
  /\ "categorizeIssuesBySeverity" \notin call.faults

\* what C2 says of the result of a call
LowConfidenceCriticalsConverted ==
  /\ \A k \in 1..Len(trace.allIssues) :
       IsLowConfidenceCritical(trace.allIssues[k], config) =>
         /\ \A j \in 1..Len(result.issues) :
              result.issues[j] # trace.allIssues[k]
         /\ \E j \in 1..Len(result.warnings) :
              /\ result.warnings[j].category = trace.allIssues[k].category
              /\ result.warnings[j].message = trace.allIssues[k].message
  /\ result.issues
       = SelectSeq(trace.allIssues,
                   LAMBDA issue : ~IsLowConfidenceCritical(issue, config))
  /\ result.isValid
       <=> \A k \in 1..Len(trace.allIssues) :
             trace.allIssues[k].type = "critical"
               => IsLowConfidenceCritical(trace.allIssues[k], config)

\* C2: for every issue of a validator or general rule that is critical
\* and has a confidence below config.confidenceThreshold, the result that
\* validateResumeDates returns does not hold it in issues, holds a warnings
\* entry with its category and message instead, and isValid is not made
\* false by it; all other issues stay in issues unchanged and in their
\* original order.
C2_LowConfidenceCriticalsBecomeWarnings ==
  Returned => LowConfidenceCriticalsConverted

\* the same of the calls whose reclassification ran to its end: these
\* results are as C2 says
C2_WhenReclassified ==
  Reclassified => LowConfidenceCriticalsConverted

\* a reclassified result with a low-confidence critical issue next to two
\* issues that stay, one of them critical
C2_ReclassifiedReached ==
  /\ Reclassified
  /\ \E k \in 1..Len(trace.allIssues) :
       IsLowConfidenceCritical(trace.allIssues[k], config)
  /\ \E k \in 1..Len(trace.allIssues) :
       /\ trace.allIssues[k].type = "critical"
       /\ ~IsLowConfidenceCritical(trace.allIssues[k], config)
  /\ Len(result.issues) >= 2
  /\ Len(result.warnings) >= 1

\* the calls that no catch clause protects: those made before the try
\* block of validateResumeDates and those made in its catch clause
UnprotectedSites ==
  {"start_validate_resume_dates", "logDate_validation_started",
   "end_validate_resume_dates_failed", "validation_critical_error",
   "logDate_validation_failed", "logValidationResults_failed"}

\* what C3 says of a call
NothingThrown ==
  /\ ~trace.thrown
  /\ WellFormed(result)
  /\ (trace.path = "critical_error" => IsEmptyResult(result))

\* C3: every call of validateResumeDates returns a well-formed result and
\* lets no exception reach its caller, whichever stage fails (parsing,
\* timeline validation, general rules, suggestion generation,
\* reclassification); a failure no stage's own catch clause receives gives
\* isValid = true, no issues, no suggestions and exactly one warning.
C3_NeverThrows ==
  WasCalled => NothingThrown

\* the same of the calls in which every call that fails is made inside the
\* try block of validateResumeDates and outside its catch clause
C3_WhenProtected ==
  (WasCalled /\ call.faults \cap UnprotectedSites = {}) => NothingThrown

\* a run that had found issues when a failure reached the catch clause of
\* validateResumeDates, which returned the empty result
C3_CatchClauseReached ==
  /\ Returned
  /\ trace.path = "critical_error"
  /\ Len(trace.allIssues) > 0
  /\ IsEmptyResult(result)

\* C4: for input that is null, not a string, the empty string or white
\* space only, validateResumeDates returns isValid = true, no issues, no
\* suggestions and exactly one warning, and enters no parsing or validation
\* stage.
C4_RejectedInputGivesEmptyResult ==
  (Returned /\ call.input.kind \in {"null", "number", "empty", "blank"}) =>
    /\ IsEmptyResult(result)
    /\ trace.invoked = {}
    /\ trace.educationPeriods = << >> /\ trace.workExperience = << >>

\* a call with white space only, in an environment where a stage would fail
C4_Witness ==
  /\ Returned
  /\ call.input.kind = "blank"
  /\ call.faults # {}
  /\ IsEmptyResult(result)

\* the warnings of the result that are not made of an issue: those pushed
\* by the catch clauses
ReportedFailures ==
  {k \in 1..Len(result.warnings) :
     \A j \in 1..Len(trace.allIssues) :
       result.warnings[k] # WarningOf(trace.allIssues[j])}

\* C5: when the education parsing stage (or likewise the work parsing
\* stage) of validateResumeDates fails, the run goes on with an empty list
\* of periods of that kind and the result holds exactly one warning that
\* reports the failure.
C5_ParsingFailureWarned ==
  (/\ Returned
   /\ call.input.kind = "text"
   /\ call.faults \in {{"parseEducationDates"}, {"parseWorkExperience"}}) =>
    /\ "parseEducationDates" \in call.faults
         => trace.educationPeriods = << >>
    /\ "parseWorkExperience" \in call.faults
         => trace.workExperience = << >>
    /\ trace.path = "completed"
    /\ Cardinality(ReportedFailures) = 1

\* the validator with its category, the kind of its skipped warning and
\* the stages entered after it
TimelineValidators ==
  {[stage |-> "validateEducationTimeline", category |-> "education",
    skipped |-> "edu_validation_skipped",
    other |-> "validateWorkTimeline"],
   [stage |-> "validateWorkTimeline", category |-> "work",
    skipped |-> "work_validation_skipped",
    other |-> "validateEducationTimeline"]}

LaterStages(stage) ==
  {s \in PipelineStages(config) : StageIndex(s) > StageIndex(stage)}

\* the issue is in the result: among its issues, or among its warnings when
\* the reclassification made it one
Present(issue) ==
  \/ \E j \in 1..Len(result.issues) : result.issues[j] = issue
  \/ /\ IsLowConfidenceCritical(issue, config)
     /\ \E j \in 1..Len(result.warnings) :
          result.warnings[j] = WarningOf(issue)

AllPresent(issues) == \A k \in 1..Len(issues) : Present(issues[k])

\* the issues the stage finds in the periods of the call
IssuesOf(stage) ==
  CASE stage = "validateEducationTimeline" ->
         validateEducationTimeline(trace.educationPeriods, now, config)
    [] stage = "validateWorkTimeline" ->
         validateWorkTimeline(trace.workExperience, now, config)
    [] stage = "applyValidationRules" ->
         applyValidationRules(
           [educationPeriods |-> trace.educationPeriods,
            workExperience |-> trace.workExperience,
            currentDate |-> now, config |-> config], now)

\* C6: when the education timeline validator (or the work timeline
\* validator) throws during validateResumeDates, the result holds one
\* warning of that category saying the validation was skipped, every later
\* stage still runs, and the issues of the other timeline validator and of
\* the general rules are in the result.
C6_ValidatorFailureDegrades ==
  \A v \in TimelineValidators :
    (Returned /\ call.input.kind = "text" /\ call.faults = {v.stage}) =>
      /\ Cardinality({k \in 1..Len(result.warnings) :
                        /\ result.warnings[k].category = v.category
                        /\ result.warnings[k].message = Lit(v.skipped)}) = 1
      /\ LaterStages(v.stage) \subseteq trace.invoked
      /\ AllPresent(IssuesOf(v.other))
      /\ AllPresent(IssuesOf("applyValidationRules"))

\* the education validator failed in a run where the work validator found
\* issues, which the result holds next to the skipped warning
C6_Witness ==
  /\ Returned
  /\ call.faults = {"validateEducationTimeline"}
  /\ Len(IssuesOf("validateWorkTimeline")) > 0
  /\ Len(result.issues) > 0
  /\ \E k \in 1..Len(result.warnings) :
       result.warnings[k].message = Lit("edu_validation_skipped")

(***************************************************************************)
(* Properties of the timeline validators.                                  *)
(***************************************************************************)
\* the period is not ongoing, has both dates and starts on or after its end
StartsAtOrAfterEnd(period) ==
  /\ ~period.isOngoing
  /\ period.startDate # NoDate /\ period.endDate # NoDate
  /\ getTime(period.startDate) >= getTime(period.endDate)

\* the issues hold a critical one for the period, of confidence 0.9 or more
CriticalFor(issues, period, category) ==
  \E j \in 1..Len(issues) :
    /\ issues[j].type = "critical"
    /\ issues[j].category = category
    /\ issues[j].confidence >= 90000
    /\ issues[j].detectedDate = DateSpan(period.startDate, period.endDate)

\* C7: for every period that is not ongoing, has both dates and has
\* startDate >= endDate, validateEducationTimeline (education) and
\* validateWorkTimeline (work) return an issue of type critical with
\* confidence >= 0.9 for that period, whatever else is in the list.
C7_StartNotBeforeEndIsCritical ==
  /\ call.op = "validateEducationTimeline" =>
       \A k \in 1..Len(call.input) :
         StartsAtOrAfterEnd(call.input[k])
           => CriticalFor(result, call.input[k], "education")
  /\ call.op = "validateWorkTimeline" =>
       \A k \in 1..Len(call.input) :
         StartsAtOrAfterEnd(call.input[k])
           => CriticalFor(result, call.input[k], "work")

\* a work list whose second experience ends before it starts, after an
\* experience in good order
C7_Witness ==
  /\ call.op = "validateWorkTimeline"
  /\ Len(call.input) = 2
  /\ ~StartsAtOrAfterEnd(call.input[1])
  /\ call.input[1].startDate # NoDate
  /\ StartsAtOrAfterEnd(call.input[2])
  /\ call.input[2].startDate # call.input[2].endDate
  /\ CriticalFor(result, call.input[2], "work")

(***************************************************************************)
(* Properties of the texts of the scenarios.                               *)
(***************************************************************************)
\* a block of two lines: a line without dates, then the line
BlocksOf(line) ==
  {Input("text", << first, line >>) :
     first \in {HeaderEducation, LineUniversity, HeaderWork, LineAcme}}

StartsAfterEnd(period) ==
  /\ period.startDate # NoDate /\ period.endDate # NoDate
  /\ getTime(period.startDate) > getTime(period.endDate)

\* C8: for a text with a period whose range is written the later date
\* first ('2022 - 2018'), the period validateResumeDates builds from the
\* block has startDate after endDate and the result holds a critical issue
\* on the order of its dates.
C8_ReversedRangeDetected ==
  (Returned /\ call.faults = {} /\ call.input \in BlocksOf(LineReversed)) =>
    /\ \/ \E k \in 1..Len(trace.educationPeriods) :
            StartsAfterEnd(trace.educationPeriods[k])
       \/ \E k \in 1..Len(trace.workExperience) :
            StartsAfterEnd(trace.workExperience[k])
    /\ \E j \in 1..Len(result.issues) :
         /\ result.issues[j].type = "critical"
         /\ result.issues[j].message.k \in {"edu_order", "work_order"}

\* C9: for a text whose only education block holds the one range
\* 'September 2018 - May 2022', parseEducationDates returns one
\* EducationPeriod with startDate 2018-09-01, endDate 2022-05-01 and
\* isOngoing = false, and the validation reports no critical issue.
C9_MonthYearRangeParsed ==
  (/\ Returned
   /\ call.faults = {}
   /\ call.input \in {Input("text", << HeaderEducation, LineMonths >>),
                      Input("text", << LineUniversity, LineMonths >>)}) =>
    /\ Len(trace.educationPeriods) = 1
    /\ trace.educationPeriods[1].startDate = MkDate(2018, 9, 1)
    /\ trace.educationPeriods[1].endDate = MkDate(2022, 5, 1)
    /\ ~trace.educationPeriods[1].isOngoing
    /\ NoCritical(result.issues)

(***************************************************************************)
(* Properties of the date parser.                                          *)
(***************************************************************************)
\* the extracted date lies in line k of the text
InLine(e, lines, k) ==
  /\ LineStart(lines, k) <= e.startIndex
  /\ e.endIndex <= LineStart(lines, k) + LineLen(lines[k])

DatesInLine(dates, lines, k) ==
  SelectSeq(dates, LAMBDA e : InLine(e, lines, k))

\* C10: a numeric date text with a month or day out of range
\* ('2025/13/45 - 2026/99/99') gives no ExtractedDate with a parsedDate
\* for its span, and the dates of the other lines of the text are
\* extracted and parsed as they are without it.
C10_MalformedDatesRejected ==
  call.op = "extractDatesFromText" =>
    \A k \in 1..Len(call.input) :
      call.input[k] = LineMalformed =>
        /\ \A j \in 1..Len(result) :
             InLine(result[j], call.input, k) => ~result[j].parsedDate.ok
        /\ \A i \in 1..Len(call.input) :
             call.input[i] # LineMalformed =>
               Len(DatesInLine(result, call.input, i))
                 = Len(extractDatesFromText(<< call.input[i] >>, now))

(***************************************************************************)
(* Properties of the scenarios with dates in the future.                   *)
(***************************************************************************)
\* the education period is not ongoing and ends 6 to 10 calendar years
\* after the year of the clock
EndsFarAhead(period) ==
  /\ ~period.isOngoing
  /\ period.endDate # NoDate
  /\ period.endDate.y >= now.y + 6
  /\ period.endDate.y <= now.y + 10

\* the suggestion replaces the year by an earlier one
ReplacesByEarlierYear(sg, year) ==
  \/ /\ sg.originalDate = YearText(year)
     /\ sg.suggestedDate.k = "year"
     /\ sg.suggestedDate.n[1] < year
  \/ /\ sg.originalDate.k = "date"
     /\ sg.originalDate.d[1].y = year
     /\ sg.suggestedDate.k = "date"
     /\ sg.suggestedDate.d[1].y < year

\* C11: with the default configuration, for an education period that is
\* not ongoing and whose end year lies between currentYear+6 and
\* currentYear+10, validateResumeDates returns a critical issue for that
\* end date (so isValid is false) and a suggestion that replaces the end
\* year by an earlier year.
C11_FarFutureGraduationFlagged ==
  (Returned /\ config = DEFAULT_VALIDATION_CONFIG /\ call.faults = {}) =>
    \A k \in 1..Len(trace.educationPeriods) :
      EndsFarAhead(trace.educationPeriods[k]) =>
        /\ \E j \in 1..Len(result.issues) :
             /\ result.issues[j].type = "critical"
             /\ result.issues[j].detectedDate
                  = toLocaleDateString(trace.educationPeriods[k].endDate)
        /\ ~result.isValid
        /\ \E j \in 1..Len(result.suggestions) :
             ReplacesByEarlierYear(result.suggestions[j],
                                   trace.educationPeriods[k].endDate.y)

\* the text '2030 - 2034' under an education header, validated in 2026
C11_Witness ==
  /\ Returned
  /\ config = DEFAULT_VALIDATION_CONFIG
  /\ call.faults = {}
  /\ call.input = Input("text", << HeaderEducation, LineFuture >>)
  /\ Len(trace.educationPeriods) = 1
  /\ EndsFarAhead(trace.educationPeriods[1])
  /\ trace.educationPeriods[1].endDate = MkDate(2034, 1, 1)
  /\ ~result.isValid
  /\ \E j \in 1..Len(result.suggestions) :
       ReplacesByEarlierYear(result.suggestions[j], 2034)

(***************************************************************************)
(* Properties of the overlap check of validateWorkTimeline.                *)
(***************************************************************************)
\* neither the company nor the position holds a keyword that excuses an
\* overlap
PlainRole(work) ==
  \A kw \in {"part-time", "freelance", "consultant", "contractor", "intern",
              "volunteer", "seasonal", "temporary", "project-based", "remote",
              "teaching", "education", "consulting", "research", "writing",
              "coaching", "training", "speaking", "advisory"} :
    ~LineIncludes(work.company, kw) /\ ~LineIncludes(work.position, kw)

\* the hours from max(startA, startB) to min(endA ?? now, endB ?? now)
OverlapHours(a, b) ==
  Min(IF a.endDate = NoDate THEN getTime(now) ELSE getTime(a.endDate),
      IF b.endDate = NoDate THEN getTime(now) ELSE getTime(b.endDate))
  - Max(getTime(a.startDate), getTime(b.startDate))

OverlapWarned ==
  \E j \in 1..Len(result) :
    /\ result[j].type = "warning" /\ result[j].category = "work"
    /\ result[j].message.k = "work_overlap" /\ result[j].confidence = 70000

\* C12: for two work periods that both have a start date and hold no
\* excusing keyword, validateWorkTimeline emits the overlap warning
\* (confidence 0.7) if and only if the periods overlap for at least 3
\* months, the overlap running from max(startA, startB) to
\* min(endA ?? now, endB ?? now); pairs with an open end included.
C12_OverlapWarningIffThreeMonths ==
  (/\ call.op = "validateWorkTimeline" /\ Len(call.input) = 2
   /\ call.input[1].startDate # NoDate /\ call.input[2].startDate # NoDate
   /\ PlainRole(call.input[1]) /\ PlainRole(call.input[2])) =>
    (OverlapWarned
       <=> OverlapHours(call.input[1], call.input[2]) * 100 >= 3 * MonthHours)

(***************************************************************************)
(* Properties of the configuration manager.                                *)
(***************************************************************************)
\* a number (not NaN) between min and max
NumberWithin(v, min, max) ==
  /\ v.typeof = "number" /\ DOMAIN v = {"typeof", "num"}
  /\ v.num >= min /\ v.num <= max

\* what each field of a configuration may hold
Allowed(f, v) ==
  CASE f = "maxFutureEducationYears" -> NumberWithin(v, 0, 10)
    [] f = "maxFutureWorkMonths" -> NumberWithin(v, 0, 12)
    [] f = "confidenceThreshold" -> NumberWithin(v, 0, 100000)
    [] OTHER -> v.typeof = "boolean"

ConfigWithinRules ==
  \A f \in DOMAIN getConfig(manager) : Allowed(f, getConfig(manager)[f])

\* the last call was an update that carries a value its field may not hold
BadUpdate ==
  /\ call.op \in {"updateConfig", "updateConfigSync"}
  /\ \E f \in DOMAIN call.input : ~Allowed(f, call.input[f])

\* C13: after every sequence of constructions, updateConfig,
\* updateConfigSync, resetToDefaults and resetToDefaultsSync calls (and
\* settled saves) the configuration of getConfig has its three numbers in
\* [0,10], [0,12] and [0,1] and boolean flags; an update with an
\* out-of-range or wrongly typed value ends with an error and leaves the
\* configuration as it was before the call.
C13_ConfigStaysWithinRules ==
  /\ ConfigWithinRules
  /\ [][/\ ConfigWithinRules'
        /\ BadUpdate' => (result'.error /\ getConfig(manager') = getConfig(manager))]_vars

\* a bad update was rejected by a manager whose configuration is no longer
\* the default one
C13_Witness ==
  /\ BadUpdate /\ result.error
  /\ getConfig(manager) # JsConfig(DEFAULT_VALIDATION_CONFIG)
  /\ ConfigWithinRules

\* the string is a month name, a blank and a four-digit year the parser
\* takes for valid
IsMonthAndYear(dateString) ==
  /\ Len(dateString) = 2
  /\ dateString[1].t = "month"
  /\ dateString[2].t = "num" /\ dateString[2].len = 4
  /\ dateString[2].v >= 1950 /\ dateString[2].v <= now.y + 10

\* C14: for a string made of an English month name (full or three-letter
\* abbreviation, in any letter case), whitespace and a four-digit year in
\* [1950, currentYear + 10], parseDate returns a result that is not null
\* and not ongoing, whose date is day 1 of that month of that year.
C14_MonthNameAndYearParsed ==
  (call.op = "parseDate" /\ IsMonthAndYear(call.input)) =>
    /\ result.ok /\ ~result.isOngoing
    /\ result.normalized = MkDate(call.input[2].v, call.input[1].v, 1)

\* "Sep 2036" parsed in 2026, the last year parseDate accepts
C14_Witness ==
  /\ call.op = "parseDate" /\ IsMonthAndYear(call.input)
  /\ call.input = << MonthWord("Sep", 9, 3), Num(2036, 4) >>
  /\ result.ok /\ result.normalized = MkDate(2036, 9, 1)

(***************************************************************************)
(* Properties of a parser that is used again.                              *)
(***************************************************************************)
\* C15: extractDatesFromText keeps no state between calls: a call on a
\* text it was given before, whatever parser calls came in between,
\* returns the same set of (startIndex, text) pairs as the first call; no
\* pair occurs twice in the list and the entries are in ascending order of
\* startIndex.
C15_ExtractionIsRepeatable ==
  call.op = "extractDatesFromText" =>
    /\ PairsOf(result) = returned[call.input].pairs
    /\ \A j, k \in 1..Len(result) :
         j < k =>
           /\ result[j].startIndex <= result[k].startIndex
           /\ << result[j].startIndex, result[j].text >>
                # << result[k].startIndex, result[k].text >>

\* a second call on "September 2018 - May 2022" while the shared
\* month-year pattern is left in the middle of a text by detectDateFormat
C15_Witness ==
  /\ call.op = "extractDatesFromText"
  /\ call.input = << LineMonths >>
  /\ returned[call.input].again
  /\ lastIndex["month_year"] > 0
  /\ Len(result) >= 4
  /\ PairsOf(result) = returned[call.input].pairs

(***************************************************************************)
(* Properties of the suggestions.                                          *)
(***************************************************************************)
\* C16: when enableTypoDetection is false the suggestion generator is not
\* run and the result of validateResumeDates has no suggestions, whatever
\* issues were raised.
C16_NoSuggestionsWhenDisabled ==
  (Returned /\ ~config.enableTypoDetection) =>
    /\ result.suggestions = << >>
    /\ "generateSuggestions" \notin trace.invoked

\* "2030 - 2034" under an education header, which gets suggestions when
\* the detection is on, validated with the detection off
C16_Witness ==
  /\ Returned /\ ~config.enableTypoDetection /\ call.faults = {}
  /\ call.input = Input("text", << HeaderEducation, LineFuture >>)
  /\ ~result.isValid /\ Len(result.issues) > 0
  /\ result.suggestions = << >>

\* C17: the suggestions of a result (the list generateSuggestions
\* returned) never hold two suggestions with the same originalDate and
\* suggestedDate, hold only suggestions whose confidence is at least
\* config.confidenceThreshold, and are in order of non-increasing
\* confidence.
C17_SuggestionsFilteredAndRanked ==
  Returned =>
    \A j, k \in 1..Len(result.suggestions) :
      /\ result.suggestions[k].confidence >= config.confidenceThreshold
      /\ j < k =>
           /\ result.suggestions[j].confidence
                >= result.suggestions[k].confidence
           /\ ~(/\ result.suggestions[j].originalDate
                    = result.suggestions[k].originalDate
                /\ result.suggestions[j].suggestedDate
                    = result.suggestions[k].suggestedDate)

\* three or more suggestions of differing confidence under a threshold of
\* 0.5
C17_Witness ==
  /\ Returned /\ config.confidenceThreshold = 50000
  /\ Len(result.suggestions) >= 3
  /\ result.suggestions[1].confidence
       > result.suggestions[Len(result.suggestions)].confidence
  /\ result.suggestions[Len(result.suggestions)].confidence < 80000

(***************************************************************************)
(* Properties of the data the validators are given.                        *)
(***************************************************************************)
\* C18: validateEducationTimeline, validateWorkTimeline, the general rules
\* and generateSuggestions do not modify the data they are given: after
\* the call the education and the work list hold the same periods in the
\* same order, every field of every period as it was.
C18_InputLeftUnchanged ==
  call.op \in {"validateEducationTimeline", "validateWorkTimeline",
               "applyValidationRules", "generateSuggestions"} =>
    /\ trace.educationPeriods = call.input.educationPeriods
    /\ trace.workExperience = call.input.workExperience

\* validateWorkTimeline given two experiences, the later one first, which
\* it sorts to report on them
C18_Witness ==
  /\ call.op = "validateWorkTimeline"
  /\ Len(call.input.workExperience) = 2
  /\ call.input.workExperience[1].startDate = MkDate(2022, 5, 1)
  /\ call.input.workExperience[2].startDate = MkDate(2018, 1, 1)
  /\ SortWorkByStart(call.input.workExperience) # call.input.workExperience
  /\ trace.workExperience = call.input.workExperience

(***************************************************************************)
(* Properties of the validators on ongoing periods.                        *)
(***************************************************************************)
\* the list with the end date of its k-th period replaced
WithEndDate(periods, k, endDate) == [periods EXCEPT ![k].endDate = endDate]

\* C19: the issues validateEducationTimeline and validateWorkTimeline
\* return do not depend on the endDate of a period with isOngoing = true:
\* inputs that differ only in the endDate of an ongoing period yield the
\* same issues.
C19_OngoingEndDateIgnored ==
  /\ call.op = "validateEducationTimeline" =>
       \A k \in 1..Len(call.input), endDate \in TimelineDates :
         call.input[k].isOngoing =>
           validateEducationTimeline(WithEndDate(call.input, k, endDate),
                                     now, config) = result
  /\ call.op = "validateWorkTimeline" =>
       \A k \in 1..Len(call.input), endDate \in TimelineDates :
         call.input[k].isOngoing =>
           validateWorkTimeline(WithEndDate(call.input, k, endDate),
                                now, config) = result

(***************************************************************************)
(* Properties of determineDateRange.                                       *)
(***************************************************************************)
\* the positions of the real dates of a block: parsed and not ongoing
RealDates(extractedDates) ==
  {k \in 1..Len(extractedDates) :
     /\ extractedDates[k].parsedDate.ok
     /\ ~extractedDates[k].parsedDate.isOngoing}

HasOngoingMarker(extractedDates) ==
  \E k \in 1..Len(extractedDates) :
    /\ extractedDates[k].parsedDate.ok
    /\ extractedDates[k].parsedDate.isOngoing

\* the earliest and the latest of the real dates
Earliest(extractedDates) ==
  LET k == CHOOSE k \in RealDates(extractedDates) :
             \A j \in RealDates(extractedDates) :
               getTime(extractedDates[k].parsedDate.normalized)
                 <= getTime(extractedDates[j].parsedDate.normalized)
  IN  extractedDates[k].parsedDate.normalized

Latest(extractedDates) ==
  LET k == CHOOSE k \in RealDates(extractedDates) :
             \A j \in RealDates(extractedDates) :
               getTime(extractedDates[k].parsedDate.normalized)
                 >= getTime(extractedDates[j].parsedDate.normalized)
  IN  extractedDates[k].parsedDate.normalized

\* C20: determineDateRange on the dates of a block: one real date and no
\* ongoing marker give startDate null and endDate that date; one real
\* date and an ongoing marker give startDate that date, endDate null and
\* isOngoing; two or more real dates give the earliest as startDate and
\* the latest as endDate (null with an ongoing marker), the dates between
\* them dropped; isOngoing implies endDate null, and startDate <= endDate
\* when both are set.
C20_DateRangeOfBlock ==
  call.op = "determineDateRange" =>
    /\ (Cardinality(RealDates(call.input)) = 1
        /\ ~HasOngoingMarker(call.input)) =>
         /\ result.startDate = NoDate
         /\ result.endDate = Earliest(call.input)
         /\ ~result.isOngoing
    /\ (Cardinality(RealDates(call.input)) = 1
        /\ HasOngoingMarker(call.input)) =>
         /\ result.startDate = Earliest(call.input)
         /\ result.endDate = NoDate
         /\ result.isOngoing
    /\ Cardinality(RealDates(call.input)) >= 2 =>
         /\ result.startDate = Earliest(call.input)
         /\ result.endDate = IF HasOngoingMarker(call.input) THEN NoDate
                              ELSE Latest(call.input)
         /\ result.isOngoing = HasOngoingMarker(call.input)
    /\ result.isOngoing => result.endDate = NoDate
    /\ (result.startDate # NoDate /\ result.endDate # NoDate) =>
         getTime(result.startDate) <= getTime(result.endDate)

\* three real dates given as 2022, 2016, 2018: the range is 2016 to 2022
C20_Witness ==
  /\ call.op = "determineDateRange"
  /\ Len(call.input) = 3 /\ Cardinality(RealDates(call.input)) = 3
  /\ call.input[1].parsedDate.normalized = MkDate(2022, 1, 1)
  /\ call.input[2].parsedDate.normalized = MkDate(2016, 1, 1)
  /\ call.input[3].parsedDate.normalized = MkDate(2018, 1, 1)
  /\ result.startDate = MkDate(2016, 1, 1)
  /\ result.endDate = MkDate(2022, 1, 1)

(***************************************************************************)
(* Properties of the period builder.                                       *)
(***************************************************************************)
\* C21: every period returned by parseEducationDates or
\* parseWorkExperience has a start date, an end date or isOngoing: a block
\* from which no date could be parsed yields no period.
C21_PeriodHasADate ==
  call.op \in {"parseEducationDates", "parseWorkExperience"} =>
    \A k \in 1..Len(result) :
      \/ result[k].startDate # NoDate
      \/ result[k].endDate # NoDate
      \/ result[k].isOngoing

(***************************************************************************)
(* Properties of the loops of extractDatesFromText.                        *)
(***************************************************************************)
\* the entries of a list of extracted dates whose text is the given one
EntriesOf(dates, text) == {k \in 1..Len(dates) : dates[k].text = text}

\* C22: each pattern of extractDatesFromText processes at most 200
\* matches: of a date repeated on line after line, at most 200 entries
\* are returned for the pattern that matches it (a match of the range
\* pattern adds its two years, so at most 400 years are returned).
C22_AtMostMaxMatches ==
  (call.op = "extractDatesFromText" /\ result.returned) =>
    IF call.input.type = "date_range"
    THEN Cardinality(EntriesOf(result.finalDates, << Year(2018) >>))
           + Cardinality(EntriesOf(result.finalDates, << Year(2022) >>))
         <= 2 * MaxMatches
    ELSE Cardinality(EntriesOf(result.finalDates,
                               RepeatedDates[call.input.type]))
         <= MaxMatches

(***************************************************************************)
(* Properties of the suggestion generator on the issues of a period.       *)
(***************************************************************************)
\* the typical durations of a degree, in years
TypicalYears(degree) ==
  CASE degree = << W("bachelor") >>    -> {4, 3, 5}
    [] degree = << W("master") >>      -> {2, 1, 3}
    [] degree = << W("phd") >>         -> {5, 4, 6, 7}
    [] degree = << W("certificate") >> -> {1, 2}
    [] OTHER                           -> {4}

\* the graduation years the generator is to propose for an education period
GraduationCandidates(period, context) ==
  {period.startDate.y + d : d \in TypicalYears(period.degree)}
  \cap ((now.y - 1)..(now.y + context.config.maxFutureEducationYears))

\* the issue is the critical one about a graduation too far in the future
IsFarGraduation(issue) ==
  issue.category = "education" /\ issue.message.k = "edu_graduation_far"

\* C23: for an education issue about a graduation date too far in the
\* future on a period with a start date, the returned suggestions hold, for
\* each typical duration of the degree whose year (start year plus
\* duration) lies in [currentYear - 1, currentYear +
\* maxFutureEducationYears] and whose confidence reaches the threshold, a
\* suggestion of that year: the detected date with its year replaced by
\* it, or the year alone.
C23_GraduationYearsSuggested ==
  call.op = "generateSuggestions" =>
    \A i \in 1..Len(trace.allIssues), p \in 1..Len(call.input.educationPeriods) :
      (/\ IsFarGraduation(trace.allIssues[i])
       /\ call.input.educationPeriods[p].startDate # NoDate)
      =>
        \A year \in GraduationCandidates(call.input.educationPeriods[p],
                                         call.input) :
          calculateEducationSuggestionConfidence(
              year, call.input.educationPeriods[p], call.input,
              suggestionGenerator.currentYear)
            >= call.input.config.confidenceThreshold
          =>
            \E k \in 1..Len(result) :
              result[k].suggestedDate
                \in {replaceDateYear(trace.allIssues[i].detectedDate, year),
                     YearText(year)}

\* the issue is the critical one about a start date after the end date
IsStartAfterEnd(issue) ==
  issue.type = "critical" /\ issue.message.k \in {"edu_order", "work_order"}

\* the periods of a context, education first
PeriodsOf(context) == context.educationPeriods \o context.workExperience

\* C24: with confidenceThreshold <= 0.5, for every critical issue about a
\* start date after the end date of a period with both dates, the returned
\* suggestions hold the swap of the two years of that period:
\* "startYear - endYear" to "endYear - startYear".
C24_SwapSuggested ==
  (call.op = "generateSuggestions"
   /\ call.input.config.confidenceThreshold <= 50000)
  =>
    \A i \in 1..Len(trace.allIssues), p \in 1..Len(PeriodsOf(call.input)) :
      (/\ IsStartAfterEnd(trace.allIssues[i])
       /\ PeriodsOf(call.input)[p].startDate # NoDate
       /\ PeriodsOf(call.input)[p].endDate # NoDate
       /\ getTime(PeriodsOf(call.input)[p].startDate)
            > getTime(PeriodsOf(call.input)[p].endDate)
       /\ trace.allIssues[i].detectedDate =
            DateSpan(PeriodsOf(call.input)[p].startDate,
                     PeriodsOf(call.input)[p].endDate))
      =>
        \E k \in 1..Len(result) :
          /\ result[k].originalDate =
               Txt("year_span", << >>,
                   << PeriodsOf(call.input)[p].startDate.y,
                      PeriodsOf(call.input)[p].endDate.y >>, << >>)
          /\ result[k].suggestedDate =
               Txt("year_span", << >>,
                   << PeriodsOf(call.input)[p].endDate.y,
                      PeriodsOf(call.input)[p].startDate.y >>, << >>)

(***************************************************************************)
(* C25: under any interleaving of loadConfig, saveConfig and deleteConfig  *)
(* calls, once saveConfig(c) has returned true, with no save or delete     *)
(* started since and none in flight when it was started, the KV store      *)
(* holds c and every loadConfig started from then on returns c.            *)
(***************************************************************************)
C25_SavedConfigIsKept ==
  /\ persistence.lastSaved # NoConfig
       => persistence.kv = Stored(persistence.lastSaved)
  /\ \A i \in 1..Len(persistence.calls) :
       (/\ persistence.calls[i].op = "loadConfig"
        /\ persistence.calls[i].pc = "returned"
        /\ persistence.calls[i].expects # NoConfig)
         => persistence.calls[i].ret = persistence.calls[i].expects

\* a loadConfig started after the save has returned has settled
C25_LoadAfterSave ==
  \E i \in 1..Len(persistence.calls) :
    /\ persistence.calls[i].op = "loadConfig"
    /\ persistence.calls[i].pc = "returned"
    /\ persistence.calls[i].expects # NoConfig

(***************************************************************************)
(* C26: detectDateFormat is a function of its argument alone: every call   *)
(* on one parser returns for a text the format that the first call of a    *)
(* fresh process returns for it, whatever calls were made before.          *)
(***************************************************************************)
C26_DetectDateFormatIsPure ==
  call.op = "detectDateFormat"
    => result = detectDateFormat(call.input,
                  [type \in {"month_year", "full_date"} |-> 0]).format

(***************************************************************************)
(* C27: every validateResumeDates call, whatever its input, writes exactly *)
(* one validation_completed entry: as long as fewer than 1000 log entries  *)
(* were written since the last clearLogs, getAnalytics().totalValidations  *)
(* is the number of validateResumeDates calls made since then, and it is   *)
(* the sum of successfulValidations and failedValidations.                 *)
(***************************************************************************)
C27_OneCompletionPerCall ==
  logger.written < maxLogEntries
    => /\ getAnalytics(logger).totalValidations = logger.validations
       /\ getAnalytics(logger).totalValidations
            = getAnalytics(logger).successfulValidations
              + getAnalytics(logger).failedValidations

(***************************************************************************)
(* C30: after any sequence of calls the logger holds at most 1000 log      *)
(* entries, 500 performance metrics and 200 edge cases, and what it holds  *)
(* of each kind are the entries pushed last, in the order they were pushed *)
(* in: the oldest ones are the ones dropped.                               *)
(***************************************************************************)
C30_LoggerIsBounded ==
  /\ Len(logger.logEntries) <= maxLogEntries
  /\ Len(logger.performanceMetrics) <= maxPerformanceEntries
  /\ Len(logger.edgeCases) <= maxEdgeCases
  /\ \A k \in 1..Len(logger.logEntries) :
       logger.logEntries[k].id
         = logger.pushedLogs - Len(logger.logEntries) + k
  /\ \A k \in 1..Len(logger.performanceMetrics) :
       logger.performanceMetrics[k].id
         = logger.pushedMetrics - Len(logger.performanceMetrics) + k
  /\ \A k \in 1..Len(logger.edgeCases) :
       logger.edgeCases[k].id
         = logger.pushedEdgeCases - Len(logger.edgeCases) + k
  /\ Len(logger.logEntries)
       = IF logger.written < maxLogEntries THEN logger.written
         ELSE maxLogEntries

\* calls were made on a logger and each of the three arrays has dropped
\* entries and is full
C30_Witness ==
  /\ logger.calls > 0
  /\ Len(logger.logEntries) = maxLogEntries
  /\ logger.logEntries[1].id > 1
  /\ Len(logger.performanceMetrics) = maxPerformanceEntries
  /\ logger.performanceMetrics[1].id > 1
  /\ Len(logger.edgeCases) = maxEdgeCases
  /\ logger.edgeCases[1].id > 1

(***************************************************************************)
(* C28: an employment gap that validateWorkTimeline reports between two    *)
(* positions consecutive by start date is a real one: no position of the   *)
(* list is held from the end date of the first to the start date of the    *)
(* second.                                                                 *)
(***************************************************************************)
\* the position is held from date a to date b
ActiveThroughout(p, a, b) ==
  /\ p.startDate # NoDate
  /\ getTime(p.startDate) <= getTime(a)
  /\ \/ p.isOngoing
     \/ p.endDate # NoDate /\ getTime(p.endDate) >= getTime(b)

C28_GapIsReal ==
  call.op = "validateWorkTimeline"
    => \A k \in 1..Len(result) :
         result[k].detectedDate.k = "gap_span"
           => ~\E j \in 1..Len(call.input) :
                 ActiveThroughout(call.input[j], result[k].detectedDate.d[1],
                                  result[k].detectedDate.d[2])

\* the same for work histories of positions held one after the other: each
\* position has ended when the next one starts
C28_GapIsRealInSequence ==
  (/\ call.op = "validateWorkTimeline"
   /\ \A i, j \in 1..Len(call.input) :
        i < j =>
          /\ ~call.input[i].isOngoing
          /\ call.input[i].endDate # NoDate
          /\ getTime(call.input[i].startDate) <= getTime(call.input[i].endDate)
          /\ getTime(call.input[i].endDate) <= getTime(call.input[j].startDate))
    => C28_GapIsReal

\* a gap is reported in a work history of positions held one after the other
C28_GapInSequence ==
  /\ call.op = "validateWorkTimeline"
  /\ Len(call.input) = MaxPositions
  /\ \A i, j \in 1..Len(call.input) :
       i < j =>
         /\ ~call.input[i].isOngoing
         /\ call.input[i].endDate # NoDate
         /\ getTime(call.input[i].startDate) <= getTime(call.input[i].endDate)
         /\ getTime(call.input[i].endDate) <= getTime(call.input[j].startDate)
  /\ \E k \in 1..Len(result) : result[k].detectedDate.k = "gap_span"

(***************************************************************************)
(* C29: parseDate of a numeric date M/D/YYYY, of a day that exists and a   *)
(* year from 1950 to ten years after the current one, returns a result of  *)
(* format FULL_DATE whose date has that year, month and day.               *)
(***************************************************************************)
C29_FullDateParsed ==
  (/\ call.op = "parseDate"
   /\ call.input \in FullDateStrings
   /\ isValidYear(call.input[5].v, now))
    => /\ result.ok
       /\ result.format = FULL_DATE
       /\ result.normalized
            = MkDate(call.input[5].v, call.input[1].v, call.input[3].v)

====
